---- MODULE Spec2Model ----
(***************************************************************************)
(* Demand-to-disturbance allocation of cbmcfs3_runner.                     *)
(*                                                                         *)
(* Two implementations live in the repository and both are modelled:      *)
(*   impl = "dist_maker" : cbmcfs3_runner/pre_processor/dist_maker.py      *)
(*   impl = "maker"      : cbmcfs3_runner/disturbances/maker.py            *)
(* The harvest proportion table is built by others/silviculture.py.        *)
(*                                                                         *)
(* Floating point columns are modelled as exact rationals extended with    *)
(* NaN and +/-inf, so that a missing join partner, 0/0 and x/0 behave as   *)
(* they do in pandas; rounding error is not modelled.                      *)
(***************************************************************************)
EXTENDS Integers, Sequences, FiniteSets, TLC

(***************************************************************************)
(* Float arithmetic: [k |-> "num", n |-> numerator, d |-> denominator > 0] *)
(* in lowest terms, [k |-> "nan"], [k |-> "inf", n |-> sign].              *)
(***************************************************************************)
Abs(i) == IF i < 0 THEN -i ELSE i

Sign(i) == IF i < 0 THEN -1 ELSE IF i = 0 THEN 0 ELSE 1

RECURSIVE GCD(_, _)
GCD(a, b) == IF b = 0 THEN a ELSE GCD(b, a % b)

NaN == [k |-> "nan", n |-> 0, d |-> 1]

Inf(s) == [k |-> "inf", n |-> s, d |-> 1]

Q(n, d) ==
    LET g == GCD(Abs(n), Abs(d))
        s == IF d < 0 THEN -1 ELSE 1
    IN  [k |-> "num", n |-> (s * n) \div g, d |-> (s * d) \div g]

Z(i) == [k |-> "num", n |-> i, d |-> 1]

IsNaN(a) == a.k = "nan"

IsNum(a) == a.k = "num"

FSign(a) == IF a.k = "nan" THEN 0 ELSE Sign(a.n)

FNeg(a) == IF a.k = "nan" THEN NaN ELSE [a EXCEPT !.n = -a.n]

FAdd(a, b) ==
    IF IsNaN(a) \/ IsNaN(b) THEN NaN
    ELSE IF a.k = "inf" /\ b.k = "inf" THEN (IF a.n = b.n THEN a ELSE NaN)
    ELSE IF a.k = "inf" THEN a
    ELSE IF b.k = "inf" THEN b
    ELSE Q(a.n * b.d + b.n * a.d, a.d * b.d)

FSub(a, b) == FAdd(a, FNeg(b))

FMul(a, b) ==
    IF IsNaN(a) \/ IsNaN(b) THEN NaN
    ELSE IF a.k = "inf" \/ b.k = "inf"
         THEN (IF FSign(a) * FSign(b) = 0 THEN NaN ELSE Inf(FSign(a) * FSign(b)))
    ELSE Q(a.n * b.n, a.d * b.d)

FDiv(a, b) ==
    IF IsNaN(a) \/ IsNaN(b) THEN NaN
    ELSE IF a.k = "inf" THEN (IF b.k = "inf" THEN NaN
                              ELSE Inf(a.n * (IF FSign(b) < 0 THEN -1 ELSE 1)))
    ELSE IF b.k = "inf" THEN Z(0)
    ELSE IF b.n = 0 THEN (IF a.n = 0 THEN NaN ELSE Inf(Sign(a.n)))
    ELSE Q(a.n * b.d, a.d * b.n)

\* a > b as numpy evaluates it: False whenever an operand is NaN
FGt(a, b) ==
    IF IsNaN(a) \/ IsNaN(b) THEN FALSE
    ELSE IF a.k = "inf" THEN (a.n > 0 /\ ~(b.k = "inf" /\ b.n > 0))
    ELSE IF b.k = "inf" THEN b.n < 0
    ELSE a.n * b.d > b.n * a.d

FGe(a, b) == (~IsNaN(a) /\ ~IsNaN(b)) /\ ~FGt(b, a)

FAbs(a) == IF FSign(a) < 0 THEN FNeg(a) ELSE a

RECURSIVE Flatten(_)
Flatten(ss) == IF ss = <<>> THEN <<>> ELSE Head(ss) \o Flatten(Tail(ss))

\* Series.sum() and groupby(...).agg(sum): NaN entries are skipped
RECURSIVE skipna_sum(_)
skipna_sum(s) ==
    IF s = <<>> THEN Z(0)
    ELSE IF IsNaN(Head(s)) THEN skipna_sum(Tail(s))
    ELSE FAdd(Head(s), skipna_sum(Tail(s)))


(***************************************************************************)
(* Value universes.  Tables are sequences of records (row order is the     *)
(* data frame's row order).  Of the classifier columns only forest_type    *)
(* and conifers_broadleaves vary; the others are carried through unchanged *)
(* by every operation and are left out.  Sequences below are in the sort   *)
(* order pandas uses for the column (lexicographic for strings).           *)
(***************************************************************************)
ForestTypes == <<"FS", "PA", "PS">>

ConBroad == <<"Broad", "Con">>

DistTypeIds == <<"10", "11", "12", "7">>

\* harvested wood products, in descending lexicographic order
HwpDescending == <<"irw_c", "irw_b", "fw_c", "fw_b">>

SeqToSet(s) == {s[i] : i \in DOMAIN s}

\* no disturbance ignored
nothing_to_ignore == {}

\* others/silviculture.py: natural disturbances left out of the proportion
dist_to_ignore == {"5", "7", "21", "DISTID1", "DISTID5", "DISTID7", "DISTID9b_H", "DISTID9c_H"}

(***************************************************************************)
(* others/silviculture.py                                                  *)
(***************************************************************************)
\* inventory left-joined with the yield curve; stock = Area * volume
stock_based_on_yield(inv, yields) ==
    Flatten([i \in DOMAIN inv |->
        LET r == inv[i]
            m == SelectSeq(yields, LAMBDA y : /\ y.forest_type = r.forest_type
                                              /\ y.con_broad = r.con_broad
                                              /\ y.age_class = r.age_class)
            row(vol) == [forest_type |-> r.forest_type, con_broad |-> r.con_broad,
                         age_class |-> r.age_class, Area |-> r.Area, volume |-> vol,
                         stock |-> FMul(r.Area, vol), age |-> r.age_class * 10]
        IN  IF m = <<>> THEN <<row(NaN)>>
            ELSE [j \in DOMAIN m |-> row(m[j].volume)]])

\* treatments left-joined with the correction factors on forest_type
silviculture_corr(treat, corr) ==
    Flatten([i \in DOMAIN treat |->
        LET t == treat[i]
            m == SelectSeq(corr, LAMBDA c : c.forest_type = t.forest_type)
        IN  IF m = <<>> THEN <<[t |-> t, corr_fact |-> NaN]>>
            ELSE [j \in DOMAIN m |-> [t |-> t, corr_fact |-> m[j].corr_fact]]])

\* the status check left out
status_check_left_out(treat, corr) == FALSE

\* "if len(silviculture['status'].unique()) > 1: raise Exception"
status_not_unique(treat, corr) ==
    LET several(silviculture) ==
            Cardinality({silviculture[i].t.status : i \in DOMAIN silviculture}) > 1
    IN  several(silviculture_corr(treat, corr))

\* stock joined with the treatments of its classifiers, restricted to
\* Min_age < age < Max_age and stock > 0
stock_available_by_age(inv, yields, treat, corr) ==
    LET join(stock, silv) ==
            Flatten([i \in DOMAIN stock |->
                LET s == stock[i]
                    m == SelectSeq(silv, LAMBDA x : /\ x.t.forest_type = s.forest_type
                                                    /\ x.t.con_broad = s.con_broad)
                IN  [j \in DOMAIN m |-> [s |-> s, t |-> m[j].t, corr_fact |-> m[j].corr_fact]]])
        query(joined) ==
            SelectSeq(joined, LAMBDA x : /\ x.t.Min_age < x.s.age
                                         /\ x.s.age < x.t.Max_age
                                         /\ FGt(x.s.stock, Z(0)))
        available(kept) ==
            [i \in DOMAIN kept |->
                [forest_type |-> kept[i].s.forest_type, con_broad |-> kept[i].s.con_broad,
                 age |-> kept[i].s.age, stock |-> kept[i].s.stock,
                 Dist_Type_ID |-> kept[i].t.Dist_Type_ID, HWP |-> kept[i].t.HWP,
                 stock_available |->
                     FDiv(FMul(FMul(kept[i].s.stock, kept[i].corr_fact),
                               kept[i].t.Perc_Merch_Biom_rem),
                          Z(kept[i].t.Min_since_last))]]
    IN  available(query(join(stock_based_on_yield(inv, yields),
                             silviculture_corr(treat, corr))))

\* the group keys (forest_type, conifers_broadleaves, Dist_Type_ID) in sorted order
SilvKeys ==
    Flatten([f \in DOMAIN ForestTypes |->
      Flatten([c \in DOMAIN ConBroad |->
        [d \in DOMAIN DistTypeIds |->
            [forest_type |-> ForestTypes[f], con_broad |-> ConBroad[c],
             Dist_Type_ID |-> DistTypeIds[d]]]])])

SameSilvKey(r, key) ==
    /\ r.forest_type = key.forest_type
    /\ r.con_broad = key.con_broad
    /\ r.Dist_Type_ID = key.Dist_Type_ID

\* sum of stock_available per group, natural disturbances dropped, then the
\* HWP column joined back from the treatments; status is set to 'For'
stock_available_agg(inv, yields, treat, corr) ==
    LET aggregate(byage, keys) ==
            Flatten([g \in DOMAIN keys |->
                LET rows == SelectSeq(byage, LAMBDA r : SameSilvKey(r, keys[g]))
                    tot  == skipna_sum([i \in DOMAIN rows |-> rows[i].stock_available])
                    m    == SelectSeq(treat, LAMBDA t : SameSilvKey(t, keys[g]))
                IN  [j \in DOMAIN m |->
                        [forest_type |-> keys[g].forest_type, con_broad |-> keys[g].con_broad,
                         Dist_Type_ID |-> keys[g].Dist_Type_ID, stock_available |-> tot,
                         HWP |-> m[j].HWP, status |-> "For"]]])
        grouped(byage) ==
            aggregate(byage,
                      SelectSeq(SilvKeys,
                                LAMBDA key : \E i \in DOMAIN byage : SameSilvKey(byage[i], key)))
    IN  grouped(SelectSeq(stock_available_by_age(inv, yields, treat, corr),
                          LAMBDA r : r.Dist_Type_ID \notin dist_to_ignore))

\* the total taken over the rows of all products
stock_tot_all_products(agg, hwp) ==
    skipna_sum([i \in DOMAIN agg |-> agg[i].stock_available])

\* df.groupby(['HWP'])['stock_available'].transform('sum')
stock_tot(agg, hwp) ==
    LET rows == SelectSeq(agg, LAMBDA r : r.HWP = hwp)
    IN  skipna_sum([i \in DOMAIN rows |-> rows[i].stock_available])

\* prop = stock_available / stock_tot
prop_of(stock_available, total) == FDiv(stock_available, total)

\* prop added, rows sorted by HWP descending (rows of one HWP keep their order)
harvest_proportion(inv, yields, treat, corr) ==
    LET with_prop(agg) ==
            [i \in DOMAIN agg |->
                [forest_type |-> agg[i].forest_type, con_broad |-> agg[i].con_broad,
                 Dist_Type_ID |-> agg[i].Dist_Type_ID,
                 stock_available |-> agg[i].stock_available,
                 HWP |-> agg[i].HWP, status |-> agg[i].status,
                 stock_tot |-> stock_tot(agg, agg[i].HWP),
                 prop |-> prop_of(agg[i].stock_available, stock_tot(agg, agg[i].HWP))]]
        sort_values(df) ==
            Flatten([h \in DOMAIN HwpDescending |->
                SelectSeq(df, LAMBDA r : r.HWP = HwpDescending[h])])
    IN  sort_values(with_prop(stock_available_agg(inv, yields, treat, corr)))


(***************************************************************************)
(* The allocation table read by both DisturbanceMaker classes is the       *)
(* harvest proportion table carrying the treatment columns of its rule     *)
(* (sort_type, age bounds, owc_perc, snag_perc) and the density of its     *)
(* forest type.  The code that attaches them is not part of the sources;   *)
(* it is modelled from the AllocationRule of the data model.  Numeric      *)
(* columns are floats, a missing string is "NaN".                          *)
(***************************************************************************)
density_of(coefs, forest_type) ==
    LET m == SelectSeq(coefs, LAMBDA c : c.forest_type = forest_type)
    IN  IF m = <<>> THEN NaN ELSE m[1].db

allocation_table(hp, treat, coefs) ==
    Flatten([i \in DOMAIN hp |->
        LET h == hp[i]
            m == SelectSeq(treat, LAMBDA t : SameSilvKey(t, h) /\ t.HWP = h.HWP)
        IN  [j \in DOMAIN m |->
                [hwp |-> h.HWP, forest_type |-> h.forest_type, status |-> h.status,
                 conifers_broadleaves |-> h.con_broad, dist_type_name |-> h.Dist_Type_ID,
                 sort_type |-> Z(m[j].Sort_Type),
                 min_age |-> Z(m[j].Min_age), max_age |-> Z(m[j].Max_age),
                 owc_perc |-> m[j].OWC_Perc, snag_perc |-> m[j].Snag_Perc,
                 stock_available |-> h.stock_available, stock_tot |-> h.stock_tot,
                 prop |-> h.prop, db |-> density_of(coefs, h.forest_type)]]])

\* the columns of the allocation table on a row that found no join partner
no_rule ==
    [hwp |-> "NaN", forest_type |-> "NaN", status |-> "NaN",
     conifers_broadleaves |-> "NaN", dist_type_name |-> "NaN",
     sort_type |-> NaN, min_age |-> NaN, max_age |-> NaN,
     owc_perc |-> NaN, snag_perc |-> NaN, stock_available |-> NaN, stock_tot |-> NaN,
     prop |-> NaN, db |-> NaN]

\* Series.replace(['Con', 'Broad'], [c, b]): other values are left as they are
replace_con_broad(v, c, b) == IF v = "Con" THEN c ELSE IF v = "Broad" THEN b ELSE v

\* the (step, conifers_broadleaves) groups of a table in sorted order;
\* groupby drops the rows whose key is missing
group_keys(rows, steps) ==
    LET all == Flatten([s \in DOMAIN steps |->
                  [c \in DOMAIN ConBroad |-> [step |-> steps[s], cb |-> ConBroad[c]]]])
    IN  SelectSeq(all, LAMBDA key : \E i \in DOMAIN rows :
                        rows[i].step = key.step /\ rows[i].conifers_broadleaves = key.cb)

in_group(r, key) == r.step = key.step /\ r.conifers_broadleaves = key.cb

(***************************************************************************)
(* Unit conversion as written in the code                                  *)
(***************************************************************************)
\* the carbon fraction 1/2 left out
volume_times_density(volume, density) == FMul(volume, density)

\* value_ob * db / 2
volume_to_carbon(volume, density) == FDiv(FMul(volume, density), Z(2))

\* amount / db * 2
carbon_to_volume(mass, density) == FMul(FDiv(mass, density), Z(2))

\* the clipping left out
clip_left_out(a) == a

\* [a if a > 0 else 0 for a in column]
clip_negative(a) == IF FGt(a, Z(0)) THEN a ELSE Z(0)

(***************************************************************************)
(* disturbances/maker.py                                                   *)
(***************************************************************************)
\* demand left-joined with the allocation table on hwp; amounts in tonnes of carbon
maker_dist_irw(gftm_irw, alloc) ==
    Flatten([i \in DOMAIN gftm_irw |->
        LET g == gftm_irw[i]
            m == SelectSeq(alloc, LAMBDA r : r.hwp = g.hwp)
            row(r) ==
                LET value_tc == volume_to_carbon(g.value_ob, r.db)
                    amount   == FMul(value_tc, r.prop)
                IN  [hwp |-> g.hwp, step |-> g.step, value_ob |-> g.value_ob,
                     rule |-> r, conifers_broadleaves |-> r.conifers_broadleaves,
                     value_tc |-> value_tc, amount |-> amount,
                     owc_amount_from_IRW |-> FMul(amount, r.owc_perc),
                     snag_amount_from_IRW |-> FMul(amount, r.snag_perc)]
        IN  IF m = <<>> THEN <<row(no_rule)>> ELSE [j \in DOMAIN m |-> row(m[j])]])

\* owc and snag amounts of the roundwood rows summed per (step, conifers_broadleaves)
\* and tagged with the fuel wood product of the class
maker_dist_irw_fw(dist_irw, steps) ==
    LET agg(keys) ==
            [g \in DOMAIN keys |->
                LET rows == SelectSeq(dist_irw, LAMBDA r : in_group(r, keys[g]))
                IN  [step |-> keys[g].step,
                     hwp |-> replace_con_broad(keys[g].cb, "fw_c", "fw_b"),
                     owc_amount_from_IRW |->
                         skipna_sum([i \in DOMAIN rows |-> rows[i].owc_amount_from_IRW]),
                     snag_amount_from_IRW |->
                         skipna_sum([i \in DOMAIN rows |-> rows[i].snag_amount_from_IRW])]]
    IN  agg(group_keys(dist_irw, steps))

\* the fuel wood table before the final query("amount>0")
maker_dist_fw_all(dist_irw, gftm_fw, alloc, coefs, steps) ==
    LET row(g, r, owc, snag, value_tc, clipped) ==
            [hwp |-> g.hwp, step |-> g.step, value_ob |-> g.value_ob,
             rule |-> r, conifers_broadleaves |-> r.conifers_broadleaves,
             owc_amount_from_IRW |-> owc, snag_amount_from_IRW |-> snag,
             db |-> density_of(coefs, r.forest_type),
             unclipped |-> value_tc, value_tc |-> clipped,
             amount |-> FDiv(FMul(clipped, r.prop),
                             FAdd(FAdd(Z(1), r.owc_perc), r.snag_perc))]
        clip(g, r, owc, snag, value_tc) ==
            row(g, r, owc, snag, value_tc, clip_negative(value_tc))
        \* db_2 is the db column of the allocation table
        deduce(g, r, owc, snag) ==
            clip(g, r, owc, snag, FSub(FSub(volume_to_carbon(g.value_ob, r.db), owc), snag))
        joined(irw_fw) ==
            Flatten([i \in DOMAIN gftm_fw |->
                LET g    == gftm_fw[i]
                    b    == SelectSeq(irw_fw, LAMBDA x : x.hwp = g.hwp /\ x.step = g.step)
                    owc  == IF b = <<>> THEN NaN ELSE b[1].owc_amount_from_IRW
                    snag == IF b = <<>> THEN NaN ELSE b[1].snag_amount_from_IRW
                    m    == SelectSeq(alloc, LAMBDA r : r.hwp = g.hwp)
                IN  IF m = <<>> THEN <<deduce(g, no_rule, owc, snag)>>
                    ELSE [j \in DOMAIN m |-> deduce(g, m[j], owc, snag)]])
    IN  joined(maker_dist_irw_fw(dist_irw, steps))

\* the table returned without the final query
maker_dist_fw_unfiltered(dist_irw, gftm_fw, alloc, coefs, steps) ==
    maker_dist_fw_all(dist_irw, gftm_fw, alloc, coefs, steps)

\* df.query("amount>0")
maker_dist_fw(dist_irw, gftm_fw, alloc, coefs, steps) ==
    SelectSeq(maker_dist_fw_all(dist_irw, gftm_fw, alloc, coefs, steps),
              LAMBDA r : FGt(r.amount, Z(0)))


\* numpy.testing.assert_allclose on one pair: NaN matches only NaN, an
\* infinity only itself, and |actual - desired| <= rtol * |desired| otherwise
allclose(actual, desired, tol) ==
    IF IsNaN(actual) \/ IsNaN(desired) THEN IsNaN(actual) /\ IsNaN(desired)
    ELSE IF actual.k = "inf" \/ desired.k = "inf" THEN actual = desired
    ELSE FGe(FMul(tol, FAbs(desired)), FAbs(FSub(actual, desired)))

\* rtol mistyped as 1
rtol_one == Z(1)

\* rtol=1e-03 of the roundwood check
rtol == Q(1, 1000)

\* the bound of "diff_prop > -0.02" in the fuel wood check
fw_slack == Q(-2, 100)

\* the join taken from the side of the groups only (how='left')
groups_left_joined_with_demand(groups, gftm) ==
    Flatten([g \in DOMAIN groups |->
        LET m == SelectSeq(gftm, LAMBDA d : d.step = groups[g].step /\ d.hwp = groups[g].hwp)
        IN  IF m = <<>>
            THEN <<[step |-> groups[g].step, hwp |-> groups[g].hwp,
                    amount_m3 |-> groups[g].amount_m3, value_ob |-> NaN]>>
            ELSE [j \in DOMAIN m |->
                    [step |-> groups[g].step, hwp |-> groups[g].hwp,
                     amount_m3 |-> groups[g].amount_m3, value_ob |-> m[j].value_ob]]])

\* groups of (step, hwp) outer-joined with a demand table on (step, hwp)
outer_join_demand(groups, gftm) ==
    Flatten([g \in DOMAIN groups |->
        LET m == SelectSeq(gftm, LAMBDA d : d.step = groups[g].step /\ d.hwp = groups[g].hwp)
        IN  IF m = <<>>
            THEN <<[step |-> groups[g].step, hwp |-> groups[g].hwp,
                    amount_m3 |-> groups[g].amount_m3, value_ob |-> NaN]>>
            ELSE [j \in DOMAIN m |->
                    [step |-> groups[g].step, hwp |-> groups[g].hwp,
                     amount_m3 |-> groups[g].amount_m3, value_ob |-> m[j].value_ob]]])
    \o
    LET alone == SelectSeq(gftm, LAMBDA d : ~\E g \in DOMAIN groups :
                                d.step = groups[g].step /\ d.hwp = groups[g].hwp)
    IN  [j \in DOMAIN alone |->
            [step |-> alone[j].step, hwp |-> alone[j].hwp,
             amount_m3 |-> NaN, value_ob |-> alone[j].value_ob]]

\* check_dist_irw: amounts reconverted to m3, summed per (step, class) and
\* outer-joined with the roundwood demand
maker_irw_converted(dist_irw, gftm_irw, steps) ==
    LET groups(keys) ==
            [g \in DOMAIN keys |->
                LET rows == SelectSeq(dist_irw, LAMBDA r : in_group(r, keys[g]))
                IN  [step |-> keys[g].step,
                     hwp |-> replace_con_broad(keys[g].cb, "irw_c", "irw_b"),
                     amount_m3 |-> skipna_sum([i \in DOMAIN rows |->
                                      carbon_to_volume(rows[i].amount, rows[i].rule.db)])]]
    IN  outer_join_demand(groups(group_keys(dist_irw, steps)), gftm_irw)

\* TRUE when numpy.testing.assert_allclose(df['amount_m3'], df['value_ob']) passes
maker_check_dist_irw(dist_irw, gftm_irw, steps) ==
    LET all_close(df) ==
            \A i \in DOMAIN df : allclose(df[i].amount_m3, df[i].value_ob, rtol)
    IN  all_close(maker_irw_converted(dist_irw, gftm_irw, steps))

\* check_dist_fw: fuel wood generated by the fuel wood rows (with their own
\* owc and snag) and by the roundwood rows, in m3, per (step, class),
\* outer-joined with the fuel wood demand
maker_fw_converted(dist_irw, dist_fw, gftm_fw, steps) ==
    LET irw_agg == [i \in DOMAIN dist_irw |->
                      [step |-> dist_irw[i].step,
                       conifers_broadleaves |-> dist_irw[i].conifers_broadleaves,
                       dist_amount_m3 |->
                           carbon_to_volume(FAdd(dist_irw[i].owc_amount_from_IRW,
                                                 dist_irw[i].snag_amount_from_IRW),
                                            dist_irw[i].rule.db)]]
        fw      == [i \in DOMAIN dist_fw |->
                      [step |-> dist_fw[i].step,
                       conifers_broadleaves |-> dist_fw[i].conifers_broadleaves,
                       dist_amount_m3 |->
                           carbon_to_volume(
                               FMul(dist_fw[i].amount,
                                    FAdd(FAdd(Z(1), dist_fw[i].rule.snag_perc),
                                         dist_fw[i].rule.owc_perc)),
                               dist_fw[i].db)]]
        groups(both, keys) ==
            [g \in DOMAIN keys |->
                LET rows == SelectSeq(both, LAMBDA r : in_group(r, keys[g]))
                IN  [step |-> keys[g].step,
                     hwp |-> replace_con_broad(keys[g].cb, "fw_c", "fw_b"),
                     amount_m3 |-> skipna_sum([i \in DOMAIN rows |->
                                                  rows[i].dist_amount_m3])]]
        grouped(both) == groups(both, group_keys(both, steps))
    IN  outer_join_demand(grouped(fw \o irw_agg), gftm_fw)

\* diff_prop = (dist_amount_m3 - value_ob) / value_ob
diff_prop(generated, value_ob) == FDiv(FSub(generated, value_ob), value_ob)

\* the slack mistyped as -0.2
fw_row_ok_wide(generated, value_ob) == FGt(diff_prop(generated, value_ob), Q(-20, 100))

\* one row of "assert (df['diff_prop'] > -0.02).all()"
fw_row_ok(generated, value_ob) == FGt(diff_prop(generated, value_ob), fw_slack)

maker_check_dist_fw(dist_irw, dist_fw, gftm_fw, steps) ==
    LET all_above(df) ==
            \A i \in DOMAIN df : fw_row_ok(df[i].amount_m3, df[i].value_ob)
    IN  all_above(maker_fw_converted(dist_irw, dist_fw, gftm_fw, steps))


(***************************************************************************)
(* Assembly of the disturbance events (both classes write the same         *)
(* columns)                                                                *)
(***************************************************************************)
cols_always_minus_one ==
    {"last_dist_id", "min_tot_biom_c", "max_tot_biom_c", "min_merch_soft_biom_c",
     "max_merch_soft_biom_c", "min_merch_hard_biom_c", "max_merch_hard_biom_c",
     "min_tot_stem_snag_c", "max_tot_stem_snag_c", "min_tot_soft_stem_snag_c",
     "max_tot_soft_stem_snag_c", "min_tot_hard_stem_snag_c",
     "max_tot_hard_stem_snag_c", "min_tot_merch_stem_snag_c",
     "max_tot_merch_stem_snag_c", "min_tot_merch_soft_stem_snag_c",
     "max_tot_merch_soft_stem_snag_c", "min_tot_merch_hard_stem_snag_c",
     "max_tot_merch_hard_stem_snag_c"}

\* the hardwood bounds taken from the wrong columns
event_hw_swapped(r, amount) ==
    [status |-> r.rule.status, forest_type |-> r.rule.forest_type,
     conifers_broadleaves |-> r.rule.conifers_broadleaves,
     region |-> "?", climatic_unit |-> "?",
     dist_type_name |-> r.rule.dist_type_name, sort_type |-> r.rule.sort_type,
     sw_start |-> r.rule.min_age, sw_end |-> r.rule.max_age,
     hw_start |-> r.rule.max_age, hw_end |-> r.rule.min_age,
     using_id |-> FALSE, measurement_type |-> "M",
     minus_one |-> [c \in cols_always_minus_one |-> -1],
     amount |-> amount, step |-> r.step]

\* one allocated row as an event: classifier placeholders, age bounds for
\* softwood and hardwood, constants
event_of(r, amount) ==
    [status |-> r.rule.status, forest_type |-> r.rule.forest_type,
     conifers_broadleaves |-> r.rule.conifers_broadleaves,
     region |-> "?", climatic_unit |-> "?",
     dist_type_name |-> r.rule.dist_type_name, sort_type |-> r.rule.sort_type,
     sw_start |-> r.rule.min_age, sw_end |-> r.rule.max_age,
     hw_start |-> r.rule.min_age, hw_end |-> r.rule.max_age,
     using_id |-> FALSE, measurement_type |-> "M",
     minus_one |-> [c \in cols_always_minus_one |-> -1],
     amount |-> amount, step |-> r.step]

\* df.query('sort_type==6')
random_sort == Z(6)

\* the query matching no row
df_random_none(events) == <<>>

df_random(events) == SelectSeq(events, LAMBDA e : e.sort_type = random_sort)

\* df_random['dist_type_name'].unique(), the names put in the error message
random_dist_names(events) ==
    LET unique(rows) == {rows[i].dist_type_name : i \in DOMAIN rows}
    IN  unique(df_random(events))

\* disturbances/maker.py demand_to_dist after the two checks: the 'amount'
\* column already is in tonnes of carbon
maker_events(dist_irw, dist_fw) ==
    [i \in DOMAIN dist_irw |-> event_of(dist_irw[i], dist_irw[i].amount)]
    \o [i \in DOMAIN dist_fw |-> event_of(dist_fw[i], dist_fw[i].amount)]

\* the generated events written in place of the historical ones
events_replaced(dist_past, dist_future) == dist_future

\* pandas.concat([dist_past, dist_future])
concat_events(dist_past, dist_future) == dist_past \o dist_future

\* the combined table taken for the historical events of the next run
events_raw_overwritten(dist_past, df) == df

\* disturbance_events_raw after add_events: the combined table goes to
\* disturbance_events_combined.csv, the cached historical table is the one
\* read from disturbance_events_filtered.csv
events_raw_after_add_events(dist_past, df) == dist_past

(***************************************************************************)
(* pre_processor/dist_maker.py                                             *)
(***************************************************************************)
\* lines 64-67 and 71-79: demand scaled by the roundwood ratio and
\* left-joined with the allocation table on hwp; amounts in m3
dist_irw_rows(gftm_irw, alloc, irw_ratio) ==
    Flatten([i \in DOMAIN gftm_irw |->
        LET g == gftm_irw[i]
            value_ob == FMul(g.value_ob, irw_ratio)
            m == SelectSeq(alloc, LAMBDA r : r.hwp = g.hwp)
            row(r) ==
                LET amount_m3 == FMul(value_ob, r.prop)
                IN  [hwp |-> g.hwp, step |-> g.step, value_ob |-> value_ob,
                     rule |-> r, conifers_broadleaves |-> r.conifers_broadleaves,
                     amount_m3 |-> amount_m3,
                     owc_amount_from_irw |-> FMul(amount_m3, r.owc_perc),
                     snag_amount_from_irw |-> FMul(amount_m3, r.snag_perc)]
        IN  IF m = <<>> THEN <<row(no_rule)>> ELSE [j \in DOMAIN m |-> row(m[j])]])

\* line 69 reads the local name df, which is first bound on line 71
df_unbound_at_line_69 == TRUE

\* dist_irw: what the property returns or raises
dist_irw(gftm_irw, alloc, irw_ratio) ==
    IF df_unbound_at_line_69
    THEN [raised |-> "UnboundLocalError", rows |-> <<>>]
    ELSE [raised |-> "none", rows |-> dist_irw_rows(gftm_irw, alloc, irw_ratio)]

\* lines 101-109
dist_irw_fw(irw_rows, steps) ==
    LET agg(keys) ==
            [g \in DOMAIN keys |->
                LET rows == SelectSeq(irw_rows, LAMBDA r : in_group(r, keys[g]))
                IN  [step |-> keys[g].step,
                     hwp |-> replace_con_broad(keys[g].cb, "fw_c", "fw_b"),
                     owc_amount_from_irw |->
                         skipna_sum([i \in DOMAIN rows |-> rows[i].owc_amount_from_irw]),
                     snag_amount_from_irw |->
                         skipna_sum([i \in DOMAIN rows |-> rows[i].snag_amount_from_irw])]]
    IN  agg(group_keys(irw_rows, steps))

\* lines 91-132: the fuel wood table before the final query
dist_fw_all(irw_rows, gftm_fw, alloc, fw_ratio, steps) ==
    LET row(g, value_ob, r, owc, snag, minus_irw, clipped) ==
            [hwp |-> g.hwp, step |-> g.step, value_ob |-> value_ob,
             rule |-> r, conifers_broadleaves |-> r.conifers_broadleaves,
             owc_amount_from_irw |-> owc, snag_amount_from_irw |-> snag,
             unclipped |-> minus_irw, amount_m3_minus_irw |-> clipped,
             amount_m3 |-> FDiv(FMul(clipped, r.prop),
                                FAdd(FAdd(Z(1), r.owc_perc), r.snag_perc))]
        clip(g, value_ob, r, owc, snag, minus_irw) ==
            row(g, value_ob, r, owc, snag, minus_irw, clip_negative(minus_irw))
        deduce(g, value_ob, r, owc, snag) ==
            clip(g, value_ob, r, owc, snag, FSub(FSub(value_ob, owc), snag))
        scaled(g, r, owc, snag) == deduce(g, FMul(g.value_ob, fw_ratio), r, owc, snag)
        joined(irw_fw) ==
            Flatten([i \in DOMAIN gftm_fw |->
                LET g    == gftm_fw[i]
                    b    == SelectSeq(irw_fw, LAMBDA x : x.hwp = g.hwp /\ x.step = g.step)
                    owc  == IF b = <<>> THEN NaN ELSE b[1].owc_amount_from_irw
                    snag == IF b = <<>> THEN NaN ELSE b[1].snag_amount_from_irw
                    m    == SelectSeq(alloc, LAMBDA r : r.hwp = g.hwp)
                IN  IF m = <<>> THEN <<scaled(g, no_rule, owc, snag)>>
                    ELSE [j \in DOMAIN m |-> scaled(g, m[j], owc, snag)]])
    IN  joined(dist_irw_fw(irw_rows, steps))

\* line 136: df.query("amount_m3>0")
dist_fw(irw_rows, gftm_fw, alloc, fw_ratio, steps) ==
    SelectSeq(dist_fw_all(irw_rows, gftm_fw, alloc, fw_ratio, steps),
              LAMBDA r : FGt(r.amount_m3, Z(0)))

\* lines 148-160
dist_irw_converted(irw_rows, gftm_irw, steps) ==
    LET groups(keys) ==
            [g \in DOMAIN keys |->
                LET rows == SelectSeq(irw_rows, LAMBDA r : in_group(r, keys[g]))
                IN  [step |-> keys[g].step,
                     hwp |-> replace_con_broad(keys[g].cb, "irw_c", "irw_b"),
                     amount_m3 |-> skipna_sum([i \in DOMAIN rows |-> rows[i].amount_m3])]]
    IN  outer_join_demand(groups(group_keys(irw_rows, steps)), gftm_irw)

\* lines 169-172
check_dist_irw(irw_rows, gftm_irw, steps) ==
    LET all_close(df) ==
            \A i \in DOMAIN df : allclose(df[i].amount_m3, df[i].value_ob, rtol)
    IN  all_close(dist_irw_converted(irw_rows, gftm_irw, steps))

\* lines 188-222
dist_fw_converted(irw_rows, fw_rows, gftm_fw, steps) ==
    LET irw_agg == [i \in DOMAIN irw_rows |->
                      [step |-> irw_rows[i].step,
                       conifers_broadleaves |-> irw_rows[i].conifers_broadleaves,
                       amount_m3 |-> FAdd(irw_rows[i].owc_amount_from_irw,
                                          irw_rows[i].snag_amount_from_irw)]]
        fw      == [i \in DOMAIN fw_rows |->
                      [step |-> fw_rows[i].step,
                       conifers_broadleaves |-> fw_rows[i].conifers_broadleaves,
                       amount_m3 |-> FMul(fw_rows[i].amount_m3,
                                          FAdd(FAdd(Z(1), fw_rows[i].rule.snag_perc),
                                               fw_rows[i].rule.owc_perc))]]
        groups(both, keys) ==
            [g \in DOMAIN keys |->
                LET rows == SelectSeq(both, LAMBDA r : in_group(r, keys[g]))
                IN  [step |-> keys[g].step,
                     hwp |-> replace_con_broad(keys[g].cb, "fw_c", "fw_b"),
                     amount_m3 |-> skipna_sum([i \in DOMAIN rows |-> rows[i].amount_m3])]]
        grouped(both) == groups(both, group_keys(both, steps))
    IN  outer_join_demand(grouped(fw \o irw_agg), gftm_fw)

\* lines 231-232
check_dist_fw(irw_rows, fw_rows, gftm_fw, steps) ==
    LET all_above(df) ==
            \A i \in DOMAIN df : fw_row_ok(df[i].amount_m3, df[i].value_ob)
    IN  all_above(dist_fw_converted(irw_rows, fw_rows, gftm_fw, steps))

\* lines 397-428: amount = amount_m3 * density / 2
dist_maker_events(irw_rows, fw_rows) ==
    [i \in DOMAIN irw_rows |->
        event_of(irw_rows[i], volume_to_carbon(irw_rows[i].amount_m3, irw_rows[i].rule.db))]
    \o [i \in DOMAIN fw_rows |->
        event_of(fw_rows[i], volume_to_carbon(fw_rows[i].amount_m3, fw_rows[i].rule.db))]


(***************************************************************************)
(* Inputs.  The bounds of the model: the number of time steps of the       *)
(* demand tables and the number of silviculture treatments of a country.   *)
(***************************************************************************)
MaxStep == 1

MaxRules == 3

Steps == [i \in 1..MaxStep |-> i]

Stand(ft, cb, ac, area) ==
    [forest_type |-> ft, con_broad |-> cb, age_class |-> ac, Area |-> Z(area)]

Yield(ft, cb, ac, vol) ==
    [forest_type |-> ft, con_broad |-> cb, age_class |-> ac, volume |-> Z(vol)]

Treatment(hwp, ft, cb, dist, sort, perc, owc, snag, msl) ==
    [HWP |-> hwp, forest_type |-> ft, con_broad |-> cb, status |-> "For",
     Dist_Type_ID |-> dist, Sort_Type |-> sort, Min_age |-> 20, Max_age |-> 100,
     Min_since_last |-> msl, Perc_Merch_Biom_rem |-> perc,
     OWC_Perc |-> owc, Snag_Perc |-> snag]

\* the rows a silv_treatments.csv is drawn from, in file order
TreatmentPool ==
    << Treatment("irw_c", "PA", "Con",   "10", 3, Q(3, 5), Q(1, 10), Q(1, 20), 1),
       Treatment("irw_c", "PA", "Con",   "11", 3, Q(2, 5), Q(1, 10), Q(1, 20), 1),
       Treatment("fw_c",  "PA", "Con",   "12", 3, Q(1, 2), Q(1, 10), Q(1, 20), 2),
       Treatment("irw_b", "FS", "Broad", "10", 3, Q(1, 2), Q(1, 10), Z(0),     1),
       Treatment("fw_b",  "FS", "Broad", "12", 6, Q(1, 2), Z(0),     Z(0),     1),
       Treatment("irw_c", "PA", "Con",   "7",  3, Z(1),    Q(1, 10), Q(1, 20), 1),
       Treatment("fw_c",  "PA", "Con",   "10", 3, Z(0),    Q(1, 10), Q(1, 20), 1),
       Treatment("fw_c",  "PS", "Con",   "12", 3, Q(1, 2), Q(1, 10), Q(1, 20), 1),
       Treatment("irw_c", "PS", "Con",   "11", 3, Q(1, 2), Q(1, 10), Q(1, 20), 1),
       [Treatment("irw_b", "FS", "Broad", "11", 3, Q(1, 2), Q(1, 10), Z(0), 1)
            EXCEPT !.status = "CC"] >>

\* the sub-sequence of s at the indices in idx, in order
RECURSIVE Pick(_, _, _)
Pick(s, idx, i) ==
    IF i > Len(s) THEN <<>>
    ELSE (IF i \in idx THEN <<s[i]>> ELSE <<>>) \o Pick(s, idx, i + 1)

TreatmentTables ==
    {Pick(TreatmentPool, idx, 1) :
        idx \in {x \in SUBSET (DOMAIN TreatmentPool) : Cardinality(x) \in 1..MaxRules}}

YieldCurve ==
    << Yield("PA", "Con", 2, 5), Yield("PA", "Con", 5, 10), Yield("PA", "Con", 10, 20),
       Yield("FS", "Broad", 5, 5), Yield("PS", "Con", 5, 8) >>

InventoryA ==
    << Stand("PA", "Con", 2, 10), Stand("PA", "Con", 5, 10), Stand("PA", "Con", 10, 10),
       Stand("FS", "Broad", 5, 10), Stand("PS", "Con", 5, 5) >>

\* age class 6 of PA has no yield
InventoryB ==
    << Stand("PA", "Con", 5, 20), Stand("PA", "Con", 6, 10),
       Stand("FS", "Broad", 5, 4), Stand("PS", "Con", 5, 5) >>

Corr(pa, fs, ps) ==
    << [forest_type |-> "PA", corr_fact |-> pa], [forest_type |-> "FS", corr_fact |-> fs],
       [forest_type |-> "PS", corr_fact |-> ps] >>

Coef(pa, fs, ps) ==
    << [forest_type |-> "PA", db |-> pa], [forest_type |-> "FS", db |-> fs],
       [forest_type |-> "PS", db |-> ps] >>

\* inventory, yields, correction factors and density coefficients of a country
Countries ==
    { [inv |-> InventoryA, yields |-> YieldCurve,
       corr |-> Corr(Z(1), Z(1), Z(1)), coefs |-> Coef(Q(1, 2), Q(1, 2), Q(1, 2))],
      [inv |-> InventoryB, yields |-> YieldCurve,
       corr |-> Corr(Z(1), Q(1, 2), Z(1)), coefs |-> Coef(Q(1, 2), Q(2, 5), Q(2, 5))],
      [inv |-> InventoryA, yields |-> YieldCurve,
       corr |-> Corr(Z(1), Z(0), Z(1)), coefs |-> Coef(Q(1, 2), Q(1, 2), Q(1, 2))],
      [inv |-> InventoryA, yields |-> YieldCurve,
       corr |-> Corr(Z(1), Z(1), Z(1)), coefs |-> Coef(Q(1, 2), Z(0), Z(0))],
      [inv |-> InventoryA, yields |-> YieldCurve,
       corr |-> Corr(Z(1), Z(1), Z(1)),
       coefs |-> << [forest_type |-> "PA", db |-> Q(1, 2)] >>] }

Demand(hwp, step, vol) == [hwp |-> hwp, step |-> step, value_ob |-> Z(vol)]

\* the demand of one year: roundwood records and fuel wood records
YearProfiles ==
    << [irw |-> <<[hwp |-> "irw_c", v |-> 1000]>>, fw |-> <<[hwp |-> "fw_c", v |-> 80]>>],
       [irw |-> <<[hwp |-> "irw_c", v |-> 1000]>>, fw |-> <<[hwp |-> "fw_c", v |-> 200]>>],
       [irw |-> <<[hwp |-> "irw_c", v |-> 1000], [hwp |-> "irw_b", v |-> 500]>>,
        fw  |-> <<[hwp |-> "fw_c", v |-> 200], [hwp |-> "fw_b", v |-> 100]>>],
       [irw |-> <<[hwp |-> "irw_b", v |-> 500]>>, fw |-> <<[hwp |-> "fw_b", v |-> 40]>>],
       [irw |-> <<[hwp |-> "irw_c", v |-> 0]>>, fw |-> <<[hwp |-> "fw_c", v |-> 0]>>],
       [irw |-> <<[hwp |-> "irw_c", v |-> 1000]>>, fw |-> <<>>],
       [irw |-> <<>>, fw |-> <<[hwp |-> "fw_c", v |-> 200]>>],
       [irw |-> <<[hwp |-> "irw_b", v |-> 500]>>, fw |-> <<[hwp |-> "fw_b", v |-> 100]>>],
       [irw |-> <<[hwp |-> "irw_b", v |-> 490]>>, fw |-> <<[hwp |-> "fw_b", v |-> 50]>>] >>

gftm_irw_of(choice) ==
    Flatten([s \in DOMAIN Steps |->
        [j \in DOMAIN YearProfiles[choice[s]].irw |->
            Demand(YearProfiles[choice[s]].irw[j].hwp, Steps[s],
                   YearProfiles[choice[s]].irw[j].v)]])

gftm_fw_of(choice) ==
    Flatten([s \in DOMAIN Steps |->
        [j \in DOMAIN YearProfiles[choice[s]].fw |->
            Demand(YearProfiles[choice[s]].fw[j].hwp, Steps[s],
                   YearProfiles[choice[s]].fw[j].v)]])

\* a row of the historical disturbance events
past_event ==
    [status |-> "For", forest_type |-> "PA", conifers_broadleaves |-> "Con",
     region |-> "R1", climatic_unit |-> "C1",
     dist_type_name |-> "10", sort_type |-> Z(3),
     sw_start |-> Z(20), sw_end |-> Z(100), hw_start |-> Z(20), hw_end |-> Z(100),
     using_id |-> FALSE, measurement_type |-> "M",
     minus_one |-> [c \in cols_always_minus_one |-> -1],
     amount |-> Z(120), step |-> 0]

PastTables == {<<>>, <<past_event>>}

\* (irw_artificial_ratio, fw_artificial_ratio): the class defaults and two
\* scenario settings
RatioPairs == {<<Z(1), Z(1)>>, <<Q(11, 10), Z(1)>>, <<Z(1), Q(1, 2)>>}


(***************************************************************************)
(* State: the inputs of one run of one country, the position of the run    *)
(* in DisturbanceMaker (pc), the cached harvest proportion table, the      *)
(* tables computed by the step just taken, and the error raised, if any.   *)
(***************************************************************************)
VARIABLES impl, inventory, h_yields_long, treatments, corr_fact, coefficients,
          gftm_irw, gftm_fw, irw_artificial_ratio, fw_artificial_ratio,
          disturbance_events_raw,
          pc, err, harv_prop, tab_irw, tab_fw_all, tab_fw, future, combined,
          second_run, first,
          other, interleaved

inputs == <<impl, inventory, h_yields_long, treatments, corr_fact, coefficients,
            gftm_irw, gftm_fw, irw_artificial_ratio, fw_artificial_ratio,
            disturbance_events_raw>>

vars == <<impl, inventory, h_yields_long, treatments, corr_fact, coefficients,
          gftm_irw, gftm_fw, irw_artificial_ratio, fw_artificial_ratio,
          disturbance_events_raw,
          pc, err, harv_prop, tab_irw, tab_fw_all, tab_fw, future, combined,
          second_run, first,
          other, interleaved>>

\* the tables and settings no statement of a run assigns to
config == <<impl, inventory, h_yields_long, treatments, corr_fact, coefficients,
            irw_artificial_ratio, fw_artificial_ratio>>

\* what the first run ended with, kept to compare a second run with it
history == <<second_run, first>>

\* the run of another country that is waiting for the processor, and whether
\* the two runs have been switched while both were under way
schedule == <<other, interleaved>>

\* no other run
NoRun == [pc |-> "none"]

NoError == [kind |-> "none", names |-> {}]

Raised(kind) == [kind |-> kind, names |-> {}]

NoTable == [exists |-> FALSE, rows |-> <<>>]

Table(rows) == [exists |-> TRUE, rows |-> rows]

Init ==
    /\ impl \in {"maker", "dist_maker"}
    /\ \E c \in Countries :
          /\ inventory = c.inv
          /\ h_yields_long = c.yields
          /\ corr_fact = c.corr
          /\ coefficients = c.coefs
    /\ treatments \in TreatmentTables
    /\ \E choice \in [DOMAIN Steps -> DOMAIN YearProfiles] :
          /\ gftm_irw = gftm_irw_of(choice)
          /\ gftm_fw = gftm_fw_of(choice)
    /\ \E r \in (IF impl = "dist_maker" THEN RatioPairs ELSE {<<Z(1), Z(1)>>}) :
          /\ irw_artificial_ratio = r[1]
          /\ fw_artificial_ratio = r[2]
    /\ disturbance_events_raw \in PastTables
    /\ pc = "start"
    /\ err = NoError
    /\ harv_prop = NoTable
    /\ tab_irw = NoTable
    /\ tab_fw_all = NoTable
    /\ tab_fw = NoTable
    /\ future = NoTable
    /\ combined = NoTable
    /\ second_run = FALSE
    /\ first = [ended |-> FALSE, err |-> NoError, future |-> NoTable, combined |-> NoTable]
    /\ other = NoRun
    /\ interleaved = FALSE

Fail(e) == pc' = "failed" /\ err' = e

\* silviculture.harvest_proportion (property_cached), first read by dist_irw
HarvestProportion ==
    /\ pc = "start"
    /\ IF status_not_unique(treatments, corr_fact)
       THEN /\ Fail(Raised("Exception_status_not_unique"))
            /\ UNCHANGED harv_prop
       ELSE /\ harv_prop' = Table(allocation_table(
                              harvest_proportion(inventory, h_yields_long,
                                                 treatments, corr_fact),
                              treatments, coefficients))
            /\ pc' = "allocating"
            /\ UNCHANGED err
    /\ UNCHANGED <<inputs, tab_irw, tab_fw_all, tab_fw, future, combined, history, schedule>>

\* gftm.copy() scaled in place of the shared table
demand_scaled_in_place(gftm, ratio) ==
    [i \in DOMAIN gftm |-> [gftm[i] EXCEPT !.value_ob = FMul(@, ratio)]]

\* the demand table of the country after "gftm = ...demand.gftm.copy()" and
\* "gftm['value_ob'] = gftm['value_ob'] * ratio": the copy is scaled, the
\* table itself keeps its values
demand_after_scaling(gftm, ratio) == gftm

\* the demand tables after self.dist_irw / self.dist_fw have been evaluated;
\* disturbances/maker.py only joins them
gftm_irw_after_dist_irw ==
    IF impl = "maker" THEN gftm_irw
    ELSE demand_after_scaling(gftm_irw, irw_artificial_ratio)

gftm_fw_after_dist_fw ==
    IF impl = "maker" THEN gftm_fw
    ELSE demand_after_scaling(gftm_fw, fw_artificial_ratio)

\* what self.dist_irw evaluates to in the class that runs
run_dist_irw ==
    IF impl = "maker"
    THEN [raised |-> "none", rows |-> maker_dist_irw(gftm_irw, harv_prop.rows)]
    ELSE dist_irw(gftm_irw, harv_prop.rows, irw_artificial_ratio)

run_dist_fw_all(irw_rows) ==
    IF impl = "maker"
    THEN maker_dist_fw_all(irw_rows, gftm_fw, harv_prop.rows, coefficients, Steps)
    ELSE dist_fw_all(irw_rows, gftm_fw, harv_prop.rows, fw_artificial_ratio, Steps)

run_dist_fw(irw_rows) ==
    IF impl = "maker"
    THEN maker_dist_fw(irw_rows, gftm_fw, harv_prop.rows, coefficients, Steps)
    ELSE dist_fw(irw_rows, gftm_fw, harv_prop.rows, fw_artificial_ratio, Steps)

\* the call of the fuel wood check left out
fw_check_left_out(irw_rows, fw_rows) == TRUE

\* the call of the roundwood check left out
irw_check_left_out(irw_rows) == TRUE

irw_check_passes(irw_rows) ==
    IF impl = "maker"
    THEN maker_check_dist_irw(irw_rows, gftm_irw, Steps)
    ELSE check_dist_irw(irw_rows, gftm_irw, Steps)

fw_check_passes(irw_rows, fw_rows) ==
    IF impl = "maker"
    THEN maker_check_dist_fw(irw_rows, fw_rows, gftm_fw, Steps)
    ELSE check_dist_fw(irw_rows, fw_rows, gftm_fw, Steps)

assembled_events(irw_rows, fw_rows) ==
    IF impl = "maker" THEN maker_events(irw_rows, fw_rows)
    ELSE dist_maker_events(irw_rows, fw_rows)

\* demand_to_dist, first statement: self.check_dist_irw()
CheckDistIrw ==
    /\ pc = "allocating"
    /\ LET check(r) ==
               IF r.raised # "none"
               THEN Fail(Raised(r.raised)) /\ UNCHANGED tab_irw
               ELSE /\ tab_irw' = Table(r.rows)
                    /\ IF irw_check_passes(r.rows)
                       THEN pc' = "irw_checked" /\ UNCHANGED err
                       ELSE Fail(Raised("AssertionError_check_dist_irw"))
       IN  check(run_dist_irw)
    /\ gftm_irw' = gftm_irw_after_dist_irw
    /\ UNCHANGED <<config, gftm_fw, disturbance_events_raw, harv_prop,
                   tab_fw_all, tab_fw, future, combined, history, schedule>>

\* demand_to_dist, second statement: self.check_dist_fw()
CheckDistFw ==
    /\ pc = "irw_checked"
    /\ LET checked(irw_rows, fw_rows) ==
               /\ tab_fw' = Table(fw_rows)
               /\ IF fw_check_passes(irw_rows, fw_rows)
                  THEN pc' = "fw_checked" /\ UNCHANGED err
                  ELSE Fail(Raised("AssertionError_check_dist_fw"))
           check(r) ==
               IF r.raised # "none"
               THEN /\ Fail(Raised(r.raised))
                    /\ UNCHANGED <<tab_irw, tab_fw_all, tab_fw, gftm_fw>>
               ELSE /\ tab_irw' = Table(r.rows)
                    /\ tab_fw_all' = Table(run_dist_fw_all(r.rows))
                    /\ gftm_fw' = gftm_fw_after_dist_fw
                    /\ checked(r.rows, run_dist_fw(r.rows))
       IN  check(run_dist_irw)
    /\ gftm_irw' = gftm_irw_after_dist_irw
    /\ UNCHANGED <<config, disturbance_events_raw, harv_prop, future, combined, history, schedule>>

\* demand_to_dist, the rest: concatenation, constants, sort type check
Assemble ==
    /\ pc = "fw_checked"
    /\ LET sort_check(events) ==
               IF Len(df_random(events)) > 0
               THEN /\ Fail([kind |-> "Exception_random_sort",
                             names |-> random_dist_names(events)])
                    /\ UNCHANGED future
               ELSE /\ future' = Table(events)
                    /\ pc' = "assembled"
                    /\ UNCHANGED err
           concat(irw_rows, fw_rows) ==
               /\ tab_fw' = Table(fw_rows)
               /\ sort_check(assembled_events(irw_rows, fw_rows))
           assemble(r) ==
               IF r.raised # "none"
               THEN /\ Fail(Raised(r.raised))
                    /\ UNCHANGED <<tab_irw, tab_fw_all, tab_fw, future, gftm_fw>>
               ELSE /\ tab_irw' = Table(r.rows)
                    /\ tab_fw_all' = Table(run_dist_fw_all(r.rows))
                    /\ gftm_fw' = gftm_fw_after_dist_fw
                    /\ concat(r.rows, run_dist_fw(r.rows))
       IN  assemble(run_dist_irw)
    /\ gftm_irw' = gftm_irw_after_dist_irw
    /\ UNCHANGED <<config, disturbance_events_raw, harv_prop, combined, history, schedule>>

\* add_events (maker.py) and the df property (dist_maker.py): the new events
\* appended to the historical ones
AddEvents ==
    /\ pc = "assembled"
    /\ combined' = Table(concat_events(disturbance_events_raw, future.rows))
    /\ disturbance_events_raw' =
          events_raw_after_add_events(disturbance_events_raw,
                                      concat_events(disturbance_events_raw, future.rows))
    /\ pc' = "done"
    /\ UNCHANGED <<config, gftm_irw, gftm_fw, err, harv_prop, tab_irw, tab_fw_all, tab_fw,
                   future, history, schedule>>

\* the caller asks for the events once more (DisturbanceMaker.__call__, or
\* the demand_to_dist property read again): property_cached tables are kept,
\* plain properties are evaluated anew
RunAgain ==
    /\ pc \in {"done", "failed"}
    /\ ~second_run
    /\ second_run' = TRUE
    /\ first' = [ended |-> TRUE, err |-> err, future |-> future, combined |-> combined]
    /\ pc' = IF harv_prop.exists THEN "allocating" ELSE "start"
    /\ err' = NoError
    /\ tab_irw' = NoTable
    /\ tab_fw_all' = NoTable
    /\ tab_fw' = NoTable
    /\ future' = NoTable
    /\ combined' = NoTable
    /\ UNCHANGED <<inputs, harv_prop, schedule>>

Next ==
    \/ HarvestProportion \/ CheckDistIrw \/ CheckDistFw \/ Assemble \/ AddEvents
    \/ RunAgain

Spec == Init /\ [][Next]_vars


(***************************************************************************)
(* Two runs, of two different countries, taking turns on one processor.    *)
(* The state above is that of the run that holds the processor; "other"    *)
(* is the run that waits.  Each run has the tables and the caches of its   *)
(* own Country object (self.country = parent.parent.country); the ratios   *)
(* are attributes of the class DisturbanceMaker, read by both runs.        *)
(***************************************************************************)
\* countries with their silviculture rules, demand and historical events
ParallelCountries ==
    << [inv |-> InventoryA, yields |-> YieldCurve,
        corr |-> Corr(Z(1), Z(1), Z(1)), coefs |-> Coef(Q(1, 2), Q(1, 2), Q(1, 2)),
        treatments |-> Pick(TreatmentPool, {1, 2, 3}, 1), profile |-> 2, past |-> <<>>],
       [inv |-> InventoryB, yields |-> YieldCurve,
        corr |-> Corr(Z(1), Q(1, 2), Z(1)), coefs |-> Coef(Q(1, 2), Q(2, 5), Q(2, 5)),
        treatments |-> Pick(TreatmentPool, {4}, 1), profile |-> 4, past |-> <<past_event>>],
       [inv |-> InventoryA, yields |-> YieldCurve,
        corr |-> Corr(Z(1), Z(1), Z(1)), coefs |-> Coef(Q(1, 2), Q(1, 2), Q(1, 2)),
        treatments |-> Pick(TreatmentPool, {1, 3}, 1), profile |-> 1, past |-> <<past_event>>],
       [inv |-> InventoryB, yields |-> YieldCurve,
        corr |-> Corr(Z(1), Q(1, 2), Z(1)), coefs |-> Coef(Q(1, 2), Q(2, 5), Q(2, 5)),
        treatments |-> Pick(TreatmentPool, {4, 5}, 1), profile |-> 8, past |-> <<>>],
       [inv |-> InventoryA, yields |-> YieldCurve,
        corr |-> Corr(Z(1), Z(1), Z(1)), coefs |-> Coef(Q(1, 2), Q(1, 2), Q(1, 2)),
        treatments |-> Pick(TreatmentPool, {3, 6}, 1), profile |-> 5, past |-> <<>>],
       [inv |-> InventoryA, yields |-> YieldCurve,
        corr |-> Corr(Z(1), Z(1), Z(1)), coefs |-> Coef(Q(1, 2), Q(1, 2), Q(1, 2)),
        treatments |-> Pick(TreatmentPool, {4, 10}, 1), profile |-> 4, past |-> <<>>],
       [inv |-> InventoryA, yields |-> YieldCurve,
        corr |-> Corr(Z(1), Z(1), Z(1)), coefs |-> Coef(Q(1, 2), Q(1, 2), Q(1, 2)),
        treatments |-> Pick(TreatmentPool, {1, 2, 3, 4}, 1), profile |-> 3, past |-> <<>>],
       [inv |-> InventoryA, yields |-> YieldCurve,
        corr |-> Corr(Z(1), Z(1), Z(1)), coefs |-> Coef(Q(1, 2), Q(1, 2), Q(1, 2)),
        treatments |-> Pick(TreatmentPool, {1, 2, 3, 4}, 1), profile |-> 2, past |-> <<>>],
       [inv |-> InventoryA, yields |-> YieldCurve,
        corr |-> Corr(Z(1), Z(1), Z(1)), coefs |-> Coef(Q(1, 2), Q(1, 2), Q(1, 2)),
        treatments |-> Pick(TreatmentPool, {4}, 1), profile |-> 4, past |-> <<>>],
       [inv |-> InventoryA, yields |-> YieldCurve,
        corr |-> Corr(Z(1), Z(1), Z(1)), coefs |-> Coef(Q(1, 2), Q(1, 2), Q(1, 2)),
        treatments |-> Pick(TreatmentPool, {3, 4}, 1), profile |-> 4, past |-> <<>>] >>

\* the state of a run that has not started, for country c
new_run(c) ==
    [inventory |-> c.inv, h_yields_long |-> c.yields, treatments |-> c.treatments,
     corr_fact |-> c.corr, coefficients |-> c.coefs,
     gftm_irw |-> gftm_irw_of([s \in DOMAIN Steps |-> c.profile]),
     gftm_fw |-> gftm_fw_of([s \in DOMAIN Steps |-> c.profile]),
     disturbance_events_raw |-> c.past,
     pc |-> "start", err |-> NoError, harv_prop |-> NoTable, tab_irw |-> NoTable,
     tab_fw_all |-> NoTable, tab_fw |-> NoTable, future |-> NoTable, combined |-> NoTable]

\* the state of the run that holds the processor
running ==
    [inventory |-> inventory, h_yields_long |-> h_yields_long, treatments |-> treatments,
     corr_fact |-> corr_fact, coefficients |-> coefficients,
     gftm_irw |-> gftm_irw, gftm_fw |-> gftm_fw,
     disturbance_events_raw |-> disturbance_events_raw,
     pc |-> pc, err |-> err, harv_prop |-> harv_prop, tab_irw |-> tab_irw,
     tab_fw_all |-> tab_fw_all, tab_fw |-> tab_fw, future |-> future, combined |-> combined]

\* run f holds the processor
started(f) ==
    /\ inventory = f.inventory
    /\ h_yields_long = f.h_yields_long
    /\ treatments = f.treatments
    /\ corr_fact = f.corr_fact
    /\ coefficients = f.coefficients
    /\ gftm_irw = f.gftm_irw
    /\ gftm_fw = f.gftm_fw
    /\ disturbance_events_raw = f.disturbance_events_raw
    /\ pc = f.pc
    /\ err = f.err
    /\ harv_prop = f.harv_prop
    /\ tab_irw = f.tab_irw
    /\ tab_fw_all = f.tab_fw_all
    /\ tab_fw = f.tab_fw
    /\ future = f.future
    /\ combined = f.combined

InitTwo ==
    /\ impl \in {"maker", "dist_maker"}
    /\ \E r \in (IF impl = "dist_maker" THEN RatioPairs ELSE {<<Z(1), Z(1)>>}) :
          /\ irw_artificial_ratio = r[1]
          /\ fw_artificial_ratio = r[2]
    /\ \E a, b \in DOMAIN ParallelCountries :
          /\ a # b
          /\ started(new_run(ParallelCountries[a]))
          /\ other = new_run(ParallelCountries[b])
    /\ interleaved = FALSE
    /\ second_run = FALSE
    /\ first = [ended |-> FALSE, err |-> NoError, future |-> NoTable, combined |-> NoTable]

\* one cache for the silviculture tables of all countries
silviculture_of_any_country(own, last_computed) == last_computed

\* self.country.silviculture.harvest_proportion as the run that gets the
\* processor finds it: the property_cached value of the Silviculture object
\* of its own country, whatever the other run has computed meanwhile
silviculture_of_own_country(own, last_computed) == own

under_way(p) == p \in {"allocating", "irw_checked", "fw_checked", "assembled"}

\* the processor passes from one run to the other, between any two steps
Switch ==
    /\ other' = running
    /\ inventory' = other.inventory
    /\ h_yields_long' = other.h_yields_long
    /\ treatments' = other.treatments
    /\ corr_fact' = other.corr_fact
    /\ coefficients' = other.coefficients
    /\ gftm_irw' = other.gftm_irw
    /\ gftm_fw' = other.gftm_fw
    /\ disturbance_events_raw' = other.disturbance_events_raw
    /\ pc' = other.pc
    /\ err' = other.err
    /\ harv_prop' = silviculture_of_own_country(other.harv_prop, harv_prop)
    /\ tab_irw' = other.tab_irw
    /\ tab_fw_all' = other.tab_fw_all
    /\ tab_fw' = other.tab_fw
    /\ future' = other.future
    /\ combined' = other.combined
    /\ interleaved' = (interleaved \/ (under_way(pc) /\ under_way(other.pc)))
    /\ UNCHANGED <<impl, irw_artificial_ratio, fw_artificial_ratio, history>>

NextTwo ==
    \/ HarvestProportion \/ CheckDistIrw \/ CheckDistFw \/ Assemble \/ AddEvents
    \/ Switch

SpecTwo == InitTwo /\ [][NextTwo]_vars


(***************************************************************************)
(* Properties                                                              *)
(***************************************************************************)
ClassOfHwp(h) == IF h \in {"irw_c", "fw_c"} THEN "Con" ELSE "Broad"

RowsAt(rows, step, cb) ==
    SelectSeq(rows, LAMBDA r : r.step = step /\ r.conifers_broadleaves = cb)

\* the volume in m3 a roundwood or fuel wood row allocates
AllocatedVolume(r) ==
    IF impl = "maker" THEN carbon_to_volume(r.amount, r.rule.db) ELSE r.amount_m3

\* the owc and snag volume in m3 a roundwood row generates
ByproductVolume(r) ==
    IF impl = "maker"
    THEN carbon_to_volume(FAdd(r.owc_amount_from_IRW, r.snag_amount_from_IRW), r.rule.db)
    ELSE FAdd(r.owc_amount_from_irw, r.snag_amount_from_irw)

RoundwoodByproduct(step, cb) ==
    LET rows == RowsAt(tab_irw.rows, step, cb)
    IN  skipna_sum([j \in DOMAIN rows |-> ByproductVolume(rows[j])])

\* roundwood byproduct plus every fuel wood row's amount * (1 + owc + snag)
GeneratedFuelwood(step, cb) ==
    LET rows == RowsAt(tab_fw.rows, step, cb)
    IN  FAdd(RoundwoodByproduct(step, cb),
             skipna_sum([j \in DOMAIN rows |->
                 FMul(AllocatedVolume(rows[j]),
                      FAdd(FAdd(Z(1), rows[j].rule.owc_perc), rows[j].rule.snag_perc))]))

\* |a - v| <= v / 1000
WithinOneInThousand(a, v) ==
    /\ IsNum(a) /\ IsNum(v)
    /\ Abs(a.n * v.d - v.n * a.d) * 1000 <= Abs(v.n) * a.d

\* a >= 0.98 * v
AtLeast98Percent(a, v) ==
    /\ ~IsNaN(a) /\ IsNum(v)
    /\ (a.k = "inf" /\ a.n > 0) \/ (IsNum(a) /\ a.n * 100 * v.d >= 98 * v.n * a.d)

\* C1: whenever demand_to_dist has returned, for every roundwood demand
\* record the allocated roundwood volumes at its step and class sum to its
\* demand volume within relative tolerance 1e-3.
C1_RoundwoodConserved ==
    future.exists =>
        \A i \in DOMAIN gftm_irw :
            LET d    == gftm_irw[i]
                rows == RowsAt(tab_irw.rows, d.step, ClassOfHwp(d.hwp))
            IN  WithinOneInThousand(
                    skipna_sum([j \in DOMAIN rows |-> AllocatedVolume(rows[j])]),
                    d.value_ob)

\* a completed run whose roundwood demand fanned out over two rules
C1_Witness ==
    /\ future.exists
    /\ \E i \in DOMAIN gftm_irw :
          /\ gftm_irw[i].value_ob.n > 0
          /\ Len(RowsAt(tab_irw.rows, gftm_irw[i].step, ClassOfHwp(gftm_irw[i].hwp))) >= 2

\* C2: whenever demand_to_dist has returned, for every fuel wood demand
\* record the fuel wood volume generated at its step and class is at least
\* 0.98 times its demand volume.
C2_FuelwoodCovered ==
    future.exists =>
        \A i \in DOMAIN gftm_fw :
            AtLeast98Percent(GeneratedFuelwood(gftm_fw[i].step, ClassOfHwp(gftm_fw[i].hwp)),
                             gftm_fw[i].value_ob)

\* a completed run in which fuel wood rows were needed on top of the byproduct
C2_Witness ==
    /\ future.exists
    /\ \E i \in DOMAIN gftm_fw :
          /\ RowsAt(tab_fw.rows, gftm_fw[i].step, ClassOfHwp(gftm_fw[i].hwp)) # <<>>
          /\ FGt(gftm_fw[i].value_ob,
                 RoundwoodByproduct(gftm_fw[i].step, ClassOfHwp(gftm_fw[i].hwp)))

\* C3: the roundwood allocator of dist_maker.py, evaluated once the harvest
\* proportion table is loaded, returns for every roundwood demand record and
\* every rule of its product a row with amount = demand * prop,
\* owc = amount * owc_perc and snag = amount * snag_perc.
C3_RoundwoodAllocation ==
    (impl = "dist_maker" /\ harv_prop.exists /\ irw_artificial_ratio = Z(1)) =>
        LET r == dist_irw(gftm_irw, harv_prop.rows, irw_artificial_ratio)
        IN  /\ r.raised = "none"
            /\ \A i \in DOMAIN gftm_irw : \A j \in DOMAIN harv_prop.rows :
                  LET d == gftm_irw[i]
                      a == harv_prop.rows[j]
                  IN  a.hwp = d.hwp =>
                        \E k \in DOMAIN r.rows :
                            /\ r.rows[k].step = d.step /\ r.rows[k].hwp = d.hwp
                            /\ r.rows[k].rule = a
                            /\ r.rows[k].amount_m3 = FMul(d.value_ob, a.prop)
                            /\ r.rows[k].owc_amount_from_irw
                                  = FMul(FMul(d.value_ob, a.prop), a.owc_perc)
                            /\ r.rows[k].snag_amount_from_irw
                                  = FMul(FMul(d.value_ob, a.prop), a.snag_perc)

\* C4: the fuel wood allocator of dist_maker.py, evaluated once the harvest
\* proportion table is loaded, returns for every fuel wood demand record and
\* every rule of its product amount = remaining * prop / (1 + owc + snag),
\* remaining being the demand minus the roundwood byproduct of its step and
\* class, clipped at zero.
C4_FuelwoodAllocation ==
    (/\ impl = "dist_maker" /\ harv_prop.exists
     /\ irw_artificial_ratio = Z(1) /\ fw_artificial_ratio = Z(1)) =>
        LET r   == dist_irw(gftm_irw, harv_prop.rows, irw_artificial_ratio)
            all == dist_fw_all(r.rows, gftm_fw, harv_prop.rows, fw_artificial_ratio, Steps)
        IN  /\ r.raised = "none"
            /\ \A i \in DOMAIN gftm_fw : \A j \in DOMAIN harv_prop.rows :
                  LET d   == gftm_fw[i]
                      a   == harv_prop.rows[j]
                      byp == RowsAt(r.rows, d.step, ClassOfHwp(d.hwp))
                      rem == FSub(d.value_ob,
                                  skipna_sum([k \in DOMAIN byp |->
                                      FAdd(byp[k].owc_amount_from_irw,
                                           byp[k].snag_amount_from_irw)]))
                  IN  a.hwp = d.hwp =>
                        \E k \in DOMAIN all :
                            /\ all[k].step = d.step /\ all[k].hwp = d.hwp
                            /\ all[k].rule = a
                            /\ all[k].amount_m3 =
                                 FDiv(FMul(IF FGt(rem, Z(0)) THEN rem ELSE Z(0), a.prop),
                                      FAdd(FAdd(Z(1), a.owc_perc), a.snag_perc))

RECURSIVE PlainSum(_)
PlainSum(s) == IF s = <<>> THEN Z(0) ELSE FAdd(Head(s), PlainSum(Tail(s)))

\* C5: in the harvest proportion table the prop values of every product
\* category sum to 1.
C5_ProportionsSumToOne ==
    harv_prop.exists =>
        \A h \in {harv_prop.rows[i].hwp : i \in DOMAIN harv_prop.rows} :
            LET rows == SelectSeq(harv_prop.rows, LAMBDA r : r.hwp = h)
            IN  PlainSum([i \in DOMAIN rows |-> rows[i].prop]) = Z(1)

\* remaining demand of a row of the fuel wood table, after clipping
Remaining(r) == IF impl = "maker" THEN r.value_tc ELSE r.amount_m3_minus_irw

\* C6: after the clipping step remaining demand is >= 0 on every row of the
\* fuel wood table.
C6_RemainingNonNegative ==
    tab_fw_all.exists =>
        \A i \in DOMAIN tab_fw_all.rows :
            /\ Remaining(tab_fw_all.rows[i]).k # "nan"
            /\ Remaining(tab_fw_all.rows[i]).n >= 0

\* a row whose byproduct exceeded the demand and was clipped
C6_Witness ==
    /\ tab_fw_all.exists
    /\ \E i \in DOMAIN tab_fw_all.rows :
          /\ tab_fw_all.rows[i].unclipped.k = "num"
          /\ tab_fw_all.rows[i].unclipped.n < 0
          /\ Remaining(tab_fw_all.rows[i]) = Z(0)

\* C7: the allocators run once the harvest proportion table is loaded, and
\* when the roundwood byproduct at a (step, class) is at least the fuel wood
\* demand there, remaining demand is 0, the fuel wood allocator returns no
\* row for that (step, class), and the fuel wood check accepts the group.
C7_ByproductCoversDemand ==
    /\ harv_prop.exists => run_dist_irw.raised = "none"
    /\ tab_fw_all.exists =>
           \A i \in DOMAIN gftm_fw :
               LET d  == gftm_fw[i]
                   cb == ClassOfHwp(d.hwp)
               IN  (/\ RowsAt(tab_irw.rows, d.step, cb) # <<>>
                    /\ FGe(RoundwoodByproduct(d.step, cb), d.value_ob)) =>
                       /\ \A k \in DOMAIN tab_fw_all.rows :
                             (tab_fw_all.rows[k].step = d.step /\ tab_fw_all.rows[k].hwp = d.hwp)
                                 => Remaining(tab_fw_all.rows[k]) = Z(0)
                       /\ ~\E k \in DOMAIN tab_fw.rows :
                             tab_fw.rows[k].step = d.step /\ tab_fw.rows[k].hwp = d.hwp
                       /\ fw_row_ok(GeneratedFuelwood(d.step, cb), d.value_ob)

\* the rules with sort_type 6 that match a demand record of their product
RandomRulesDemanded ==
    {harv_prop.rows[j].dist_type_name : j \in
        {j \in DOMAIN harv_prop.rows :
            /\ harv_prop.rows[j].sort_type = Z(6)
            /\ \E i \in DOMAIN gftm_irw \cup DOMAIN gftm_fw :
                  \/ (i \in DOMAIN gftm_irw /\ gftm_irw[i].hwp = harv_prop.rows[j].hwp)
                  \/ (i \in DOMAIN gftm_fw /\ gftm_fw[i].hwp = harv_prop.rows[j].hwp)}}

\* C8 as claimed: with a rule of sort_type 6 that matches a demand record of
\* its product, demand_to_dist never returns events, and the sort type error
\* raised by assembly names the disturbance type of that rule.
C8_RandomRuleRejected ==
    (harv_prop.exists /\ RandomRulesDemanded # {}) =>
        /\ ~future.exists
        /\ err.kind = "Exception_random_sort" => RandomRulesDemanded \subseteq err.names

\* the disturbance types of the allocated rows with sort_type 6
RandomRowNames ==
    {tab_irw.rows[i].rule.dist_type_name :
        i \in {i \in DOMAIN tab_irw.rows : tab_irw.rows[i].rule.sort_type = Z(6)}}
    \cup
    {tab_fw.rows[i].rule.dist_type_name :
        i \in {i \in DOMAIN tab_fw.rows : tab_fw.rows[i].rule.sort_type = Z(6)}}

\* C8 amended: when both checks have passed and an allocated row (a roundwood
\* row, or a fuel wood row with a positive amount) has sort_type 6, the
\* assembly step raises the sort type error naming the disturbance type of
\* every such row, and returns no event.
C8_RandomRowRejected ==
    [][(pc = "fw_checked" /\ RandomRowNames # {}) =>
          /\ pc' = "failed"
          /\ err'.kind = "Exception_random_sort"
          /\ err'.names = RandomRowNames
          /\ ~future'.exists /\ ~combined'.exists]_vars

\* assembly raised on a fuel wood row with sort_type 6
C8_Witness ==
    /\ pc = "failed" /\ err.kind = "Exception_random_sort"
    /\ "12" \in err.names
    /\ \E i \in DOMAIN tab_fw.rows : tab_fw.rows[i].rule.sort_type = Z(6)

DegenerateRuleDemanded ==
    \E j \in DOMAIN harv_prop.rows :
        /\ \/ IsNaN(harv_prop.rows[j].db)
           \/ harv_prop.rows[j].db = Z(0)
           \/ harv_prop.rows[j].stock_tot = Z(0)
        /\ \/ \E i \in DOMAIN gftm_irw : gftm_irw[i].hwp = harv_prop.rows[j].hwp
           \/ \E i \in DOMAIN gftm_fw : gftm_fw[i].hwp = harv_prop.rows[j].hwp

\* C10: a rule with a zero or missing density, or a product with a zero stock
\* total, makes the run fail.
C10_DegenerateRuleFails ==
    (harv_prop.exists /\ DegenerateRuleDemanded) => pc # "done"

\* the distinct status values of the treatments (the join with the correction
\* factors keeps every treatment row)
TreatmentStatuses == {treatments[i].status : i \in DOMAIN treatments}

\* C11: once the stock-available table has been asked for, the run has failed
\* with the status error exactly when the treatments hold more than one
\* distinct status; in that case no proportion table exists, and with exactly
\* one status the proportion table has been built.
C11_StatusUnique ==
    pc # "start" =>
        /\ Cardinality(TreatmentStatuses) > 1 <=>
              (pc = "failed" /\ err.kind = "Exception_status_not_unique")
        /\ Cardinality(TreatmentStatuses) > 1 => ~harv_prop.exists
        /\ Cardinality(TreatmentStatuses) = 1 => harv_prop.exists

\* a build that failed on treatments with the statuses For and CC
C11_Witness ==
    /\ pc = "failed" /\ err.kind = "Exception_status_not_unique"
    /\ TreatmentStatuses = {"For", "CC"}
    /\ ~harv_prop.exists

C13_RoundwoodRatioOnly ==
    (impl = "dist_maker" /\ harv_prop.exists) =>
        LET scaled(r) ==
                /\ r.raised = "none"
                /\ \A k \in DOMAIN r.rows :
                      /\ r.rows[k].value_ob \in
                            {FMul(gftm_irw[i].value_ob, irw_artificial_ratio) :
                                i \in DOMAIN gftm_irw}
                      /\ r.rows[k].amount_m3 = FMul(r.rows[k].value_ob, r.rows[k].rule.prop)
                      /\ r.rows[k].owc_amount_from_irw
                            = FMul(r.rows[k].amount_m3, r.rows[k].rule.owc_perc)
                      /\ r.rows[k].snag_amount_from_irw
                            = FMul(r.rows[k].amount_m3, r.rows[k].rule.snag_perc)
        IN  scaled(dist_irw(gftm_irw, harv_prop.rows, irw_artificial_ratio))

\* the pairs (roundwood demand record, rule of the same product)
RoundwoodPairs ==
    {p \in (DOMAIN gftm_irw) \X (DOMAIN harv_prop.rows) :
        harv_prop.rows[p[2]].hwp = gftm_irw[p[1]].hwp}

\* C14: the roundwood allocator returns exactly one row per pair (roundwood
\* demand record, rule of the same product) and no other row.
C14_OneRowPerPair ==
    harv_prop.exists =>
        LET fans_out(r) ==
                /\ r.raised = "none"
                /\ Len(r.rows) = Cardinality(RoundwoodPairs)
                /\ \A p \in RoundwoodPairs :
                      Cardinality({k \in DOMAIN r.rows :
                          /\ r.rows[k].hwp = gftm_irw[p[1]].hwp
                          /\ r.rows[k].step = gftm_irw[p[1]].step
                          /\ r.rows[k].rule = harv_prop.rows[p[2]]}) = 1
        IN  fans_out(run_dist_irw)

AllocatedRows == tab_irw.rows \o tab_fw.rows

\* C16: every generated event has using_id = FALSE, measurement_type = "M",
\* -1 in every field of cols_always_minus_one, and softwood and hardwood age
\* bounds both equal to the bounds of its rule.
C16_EventConstants ==
    future.exists =>
        /\ Len(future.rows) = Len(AllocatedRows)
        /\ \A i \in DOMAIN future.rows :
              /\ future.rows[i].using_id = FALSE
              /\ future.rows[i].measurement_type = "M"
              /\ DOMAIN future.rows[i].minus_one = cols_always_minus_one
              /\ \A c \in cols_always_minus_one : future.rows[i].minus_one[c] = -1
              /\ future.rows[i].sw_start = AllocatedRows[i].rule.min_age
              /\ future.rows[i].hw_start = AllocatedRows[i].rule.min_age
              /\ future.rows[i].sw_end = AllocatedRows[i].rule.max_age
              /\ future.rows[i].hw_end = AllocatedRows[i].rule.max_age

\* generated events holding a roundwood and a fuel wood event
C16_Witness ==
    /\ future.exists
    /\ tab_irw.rows # <<>> /\ tab_fw.rows # <<>>
    /\ \E i \in DOMAIN future.rows : future.rows[i].sw_start # future.rows[i].sw_end

\* the roundwood volume a rule is allocated: demand x prop
RoundwoodVolume(r) == FMul(r.value_ob, r.rule.prop)

\* C17: the amount of every allocated roundwood row, and of the event made of
\* it, is its allocated volume x the density of its own rule / 2, and for a
\* density > 0 that amount x 2 / density (as the roundwood check computes it)
\* is the allocated volume again.
C17_VolumeCarbonRoundTrip ==
    tab_irw.exists =>
        \A i \in DOMAIN tab_irw.rows :
            LET r == tab_irw.rows[i]
            IN  /\ r.amount = FDiv(FMul(RoundwoodVolume(r), r.rule.db), Z(2))
                /\ future.exists => future.rows[i].amount = r.amount
                /\ (IsNum(r.rule.db) /\ r.rule.db.n > 0 /\ IsNum(RoundwoodVolume(r))) =>
                      carbon_to_volume(r.amount, r.rule.db) = RoundwoodVolume(r)

\* 600 and 400 m3 at density 0.5 emitted as 150 and 100 tonnes of carbon
C17_Witness ==
    /\ future.exists
    /\ \E i, j \in DOMAIN tab_irw.rows :
          /\ RoundwoodVolume(tab_irw.rows[i]) = Z(600)
          /\ RoundwoodVolume(tab_irw.rows[j]) = Z(400)
          /\ tab_irw.rows[i].rule.db = Q(1, 2) /\ tab_irw.rows[j].rule.db = Q(1, 2)
          /\ future.rows[i].amount = Z(150) /\ future.rows[j].amount = Z(100)

\* the table the fuel wood check of the running class compares: one row per
\* (step, class) group with the generated volume and the original demand
FuelwoodCheckTable ==
    IF impl = "maker"
    THEN maker_fw_converted(tab_irw.rows, tab_fw.rows, gftm_fw, Steps)
    ELSE dist_fw_converted(tab_irw.rows, tab_fw.rows, gftm_fw, Steps)

\* generated >= 0.98 * demand, both being numbers
GeneratedCoversDemand(generated, demand) ==
    generated.n * 100 * demand.d >= 98 * demand.n * generated.d

\* C18: once the fuel wood check has run, it accepts a (step, class) group
\* with a generated volume and a demand exactly when generated >= 0.98 x
\* demand, so also at a shortfall of exactly 2% and at zero against zero.
C18_FuelwoodThreshold ==
    tab_fw.exists =>
        \A i \in DOMAIN FuelwoodCheckTable :
            LET accepted_iff_covered(generated, demand) ==
                    (IsNum(generated) /\ IsNum(demand)) =>
                        (fw_row_ok(generated, demand) <=> GeneratedCoversDemand(generated, demand))
            IN  accepted_iff_covered(FuelwoodCheckTable[i].amount_m3,
                                     FuelwoodCheckTable[i].value_ob)

\* the check has raised on a group generated at exactly 98% of its demand
C18_ExactlyTwoPercentRejected ==
    /\ err.kind = "AssertionError_check_dist_fw"
    /\ \E i \in DOMAIN FuelwoodCheckTable :
          LET two_percent_short(generated, demand) ==
                  /\ IsNum(generated) /\ IsNum(demand) /\ demand.n > 0
                  /\ generated.n * 100 * demand.d = 98 * demand.n * generated.d
          IN  two_percent_short(FuelwoodCheckTable[i].amount_m3,
                                FuelwoodCheckTable[i].value_ob)
    /\ \A i \in DOMAIN FuelwoodCheckTable :
          LET covered(generated, demand) ==
                  IsNum(generated) /\ IsNum(demand) /\ GeneratedCoversDemand(generated, demand)
          IN  covered(FuelwoodCheckTable[i].amount_m3, FuelwoodCheckTable[i].value_ob)

\* the check has raised on a group with zero demand and zero generated volume
C18_ZeroGroupRejected ==
    /\ err.kind = "AssertionError_check_dist_fw"
    /\ \A i \in DOMAIN FuelwoodCheckTable :
          FuelwoodCheckTable[i].amount_m3 = Z(0) /\ FuelwoodCheckTable[i].value_ob = Z(0)

AloneOutcome ==
    LET raised(e)     == [err |-> e, future |-> NoTable]
        sorted(events) ==
            IF Len(df_random(events)) > 0
            THEN raised([kind |-> "Exception_random_sort",
                         names |-> random_dist_names(events)])
            ELSE [err |-> NoError, future |-> Table(events)]
        fw_checked(irw_rows, fw_rows) ==
            IF fw_check_passes(irw_rows, fw_rows)
            THEN sorted(assembled_events(irw_rows, fw_rows))
            ELSE raised(Raised("AssertionError_check_dist_fw"))
        fuel_wood(irw_rows, alloc) ==
            IF impl = "maker"
            THEN maker_dist_fw(irw_rows, gftm_fw, alloc, coefficients, Steps)
            ELSE dist_fw(irw_rows, gftm_fw, alloc, fw_artificial_ratio, Steps)
        irw_checked(r, alloc) ==
            IF r.raised # "none" THEN raised(Raised(r.raised))
            ELSE IF irw_check_passes(r.rows)
                 THEN fw_checked(r.rows, fuel_wood(r.rows, alloc))
                 ELSE raised(Raised("AssertionError_check_dist_irw"))
        roundwood(alloc) ==
            IF impl = "maker"
            THEN [raised |-> "none", rows |-> maker_dist_irw(gftm_irw, alloc)]
            ELSE dist_irw(gftm_irw, alloc, irw_artificial_ratio)
        allocated(alloc) == irw_checked(roundwood(alloc), alloc)
    IN  IF status_not_unique(treatments, corr_fact)
        THEN raised(Raised("Exception_status_not_unique"))
        ELSE allocated(allocation_table(
                 harvest_proportion(inventory, h_yields_long, treatments, corr_fact),
                 treatments, coefficients))

RatioOffByMoreThanOneInThousand(r) ==
    IsNum(r) /\ Abs(r.n - r.d) * 1000 > r.d

\* C21: a run of dist_maker.py with a roundwood ratio r, |r - 1| > 1e-3, and a
\* positive roundwood demand that has left the roundwood check has failed in
\* that check, the scaled allocation being compared with the original demand.
C21_ChecksAgainstOriginalDemand ==
    (/\ impl = "dist_maker"
     /\ RatioOffByMoreThanOneInThousand(irw_artificial_ratio)
     /\ harv_prop.exists
     /\ \E i \in DOMAIN gftm_irw : FGt(gftm_irw[i].value_ob, Z(0))
     /\ pc \notin {"start", "allocating"})
        => err.kind = "AssertionError_check_dist_irw"

\* C22: every row of the fuel wood allocation made for a demand record whose
\* (step, class) has no roundwood byproduct row, and for a fuel wood rule of
\* its product, has the full demand (in tonnes of carbon) as remaining
\* demand and the amount full demand x prop / (1 + owc_perc + snag_perc).
C22_NoByproductFullDemand ==
    (impl = "maker" /\ tab_fw_all.exists) =>
        \A i \in DOMAIN tab_fw_all.rows :
            LET full_demand(r) ==
                    (/\ IsNaN(r.owc_amount_from_IRW)
                     /\ r.rule # no_rule
                     /\ IsNum(r.rule.db) /\ IsNum(r.rule.prop))
                        => /\ r.value_tc = volume_to_carbon(r.value_ob, r.rule.db)
                           /\ r.amount = FDiv(FMul(volume_to_carbon(r.value_ob, r.rule.db),
                                                   r.rule.prop),
                                              FAdd(FAdd(Z(1), r.rule.owc_perc),
                                                   r.rule.snag_perc))
            IN  full_demand(tab_fw_all.rows[i])

\* the roundwood demand records whose product has no rule in the allocation table
RoundwoodWithoutRule ==
    {i \in DOMAIN gftm_irw :
        ~\E j \in DOMAIN harv_prop.rows : harv_prop.rows[j].hwp = gftm_irw[i].hwp}

\* C23: a run with a roundwood demand record whose product has no rule does
\* not get past the roundwood check: in disturbances/maker.py the check
\* raises its AssertionError, and the check of dist_maker.py rejects the
\* rows that the join of its allocator gives for that demand.
C23_UnallocatedDemandFails ==
    (/\ harv_prop.exists
     /\ RoundwoodWithoutRule # {}
     /\ pc \notin {"start", "allocating"})
        => /\ pc = "failed"
           /\ impl = "maker" => err.kind = "AssertionError_check_dist_irw"
           /\ impl = "dist_maker" =>
                 ~check_dist_irw(dist_irw_rows(gftm_irw, harv_prop.rows, irw_artificial_ratio),
                                 gftm_irw, Steps)

\* the roundwood check has failed on a demand of two products, one of which
\* has rules and is allocated in full
C23_Witness ==
    /\ impl = "maker" /\ harv_prop.exists /\ tab_irw.exists
    /\ RoundwoodWithoutRule # {}
    /\ RoundwoodWithoutRule # DOMAIN gftm_irw
    /\ err.kind = "AssertionError_check_dist_irw"

\* the larger of two numbers
FMax(a, b) == IF FGt(b, a) THEN b ELSE a

\* the fuel wood demand records of dist_maker.py whose product has rules of
\* its own class with proportions that sum to 1
FuelwoodWithFullRules ==
    {i \in DOMAIN gftm_fw :
        LET rules == SelectSeq(harv_prop.rows, LAMBDA a : a.hwp = gftm_fw[i].hwp)
        IN  /\ rules # <<>>
            /\ \A j \in DOMAIN rules :
                  rules[j].conifers_broadleaves = ClassOfHwp(gftm_fw[i].hwp)
            /\ PlainSum([j \in DOMAIN rules |-> rules[j].prop]) = Z(1)}

\* with roundwood rows irw_rows, the volume that dist_fw_converted reports
\* as generated for every such record is max(demand, roundwood byproduct)
GeneratedIsMaxOfDemandAndByproduct(irw_rows) ==
    LET byproduct(d) ==
            LET byp == RowsAt(irw_rows, d.step, ClassOfHwp(d.hwp))
            IN  skipna_sum([k \in DOMAIN byp |->
                    FAdd(byp[k].owc_amount_from_irw, byp[k].snag_amount_from_irw)])
        reported(d, table) ==
            \E k \in DOMAIN table :
                /\ table[k].step = d.step /\ table[k].hwp = d.hwp
                /\ table[k].amount_m3 = FMax(d.value_ob, byproduct(d))
    IN  \A i \in FuelwoodWithFullRules :
            reported(gftm_fw[i],
                     dist_fw_converted(irw_rows,
                                       dist_fw(irw_rows, gftm_fw, harv_prop.rows,
                                               fw_artificial_ratio, Steps),
                                       gftm_fw, Steps))

EarliestFailure(irw_rows, fw_rows) ==
    IF ~maker_check_dist_irw(irw_rows, gftm_irw, Steps)
    THEN "AssertionError_check_dist_irw"
    ELSE IF ~maker_check_dist_fw(irw_rows, fw_rows, gftm_fw, Steps)
         THEN "AssertionError_check_dist_fw"
         ELSE IF Len(df_random(maker_events(irw_rows, fw_rows))) > 0
              THEN "Exception_random_sort"
              ELSE "none"

\* C25: a run that has the allocation table ends with the error of the
\* earliest of roundwood check, fuel wood check and sort type check that
\* fails (in dist_maker.py with the error of the first statement, which
\* reads dist_irw), events are assembled only when none of them fails, and
\* a failed run has assembled nothing.
C25_ChecksBeforeAssembly ==
    LET earliest(irw_rows) ==
            EarliestFailure(irw_rows, run_dist_fw(irw_rows))
    IN  /\ (impl = "maker" /\ harv_prop.exists /\ pc = "failed")
              => err.kind = earliest(run_dist_irw.rows)
        /\ (impl = "maker" /\ future.exists)
              => earliest(run_dist_irw.rows) = "none"
        /\ (impl = "dist_maker" /\ harv_prop.exists /\ pc = "failed")
              => err.kind = "UnboundLocalError" /\ ~tab_irw.exists
        /\ pc = "failed" => ~future.exists /\ ~combined.exists

\* the roundwood check has raised in a run whose fuel wood check would have
\* raised as well
C25_Witness ==
    /\ impl = "maker" /\ harv_prop.exists /\ pc = "failed"
    /\ err.kind = "AssertionError_check_dist_irw"
    /\ ~maker_check_dist_fw(run_dist_irw.rows, run_dist_fw(run_dist_irw.rows), gftm_fw, Steps)

\* what one stand of the inventory contributes to the stock available to
\* treatment t: area x yield volume x correction factor x percent removed /
\* min since last, when its age (age_class x 10) lies strictly between the
\* age bounds of t and its stock is positive, and nothing otherwise
StandContribution(s, t) ==
    LET y == SelectSeq(h_yields_long, LAMBDA v : /\ v.forest_type = s.forest_type
                                                 /\ v.con_broad = s.con_broad
                                                 /\ v.age_class = s.age_class)
        c == SelectSeq(corr_fact, LAMBDA v : v.forest_type = t.forest_type)
        counted(volume, corr) ==
            IF /\ s.forest_type = t.forest_type /\ s.con_broad = t.con_broad
               /\ t.Min_age < s.age_class * 10 /\ s.age_class * 10 < t.Max_age
               /\ FGt(FMul(s.Area, volume), Z(0))
            THEN FDiv(FMul(FMul(FMul(s.Area, volume), corr), t.Perc_Merch_Biom_rem),
                      Z(t.Min_since_last))
            ELSE Z(0)
    IN  IF y = <<>> \/ c = <<>> THEN Z(0) ELSE counted(y[1].volume, c[1].corr_fact)

\* the treatments a row of the allocation table stands for
TreatmentsOfRule(h) ==
    {i \in DOMAIN treatments :
        /\ treatments[i].forest_type = h.forest_type
        /\ treatments[i].con_broad = h.conifers_broadleaves
        /\ treatments[i].Dist_Type_ID = h.dist_type_name
        /\ treatments[i].HWP = h.hwp}

\* C26: the stock_available of every rule of the harvest proportion table
\* is the sum, over the stands of its classifiers whose age lies strictly
\* between its min_age and max_age and whose stock is positive, of
\* area x yield volume x correction factor x percent removed / min since last.
C26_StockAvailable ==
    harv_prop.exists =>
        \A j \in DOMAIN harv_prop.rows : \A i \in TreatmentsOfRule(harv_prop.rows[j]) :
            harv_prop.rows[j].stock_available
                = PlainSum([k \in DOMAIN inventory |->
                               StandContribution(inventory[k], treatments[i])])

\* the disturbance ids the claim calls natural
NaturalDisturbanceIds ==
    {"5", "7", "21", "DISTID1", "DISTID5", "DISTID7", "DISTID9b_H", "DISTID9c_H"}

\* C27: once the harvest proportion table is computed, no row of the
\* aggregated stock table and no row of the harvest proportion table has a
\* natural disturbance id, and the stock total of every product is the sum of
\* the stock of the rows of that product, none of them natural.
C27_NaturalDisturbancesIgnored ==
    harv_prop.exists =>
        LET none_natural(agg) ==
                \A i \in DOMAIN agg : agg[i].Dist_Type_ID \notin NaturalDisturbanceIds
            total(rows) == PlainSum([i \in DOMAIN rows |-> rows[i].stock_available])
        IN  /\ none_natural(stock_available_agg(inventory, h_yields_long,
                                                treatments, corr_fact))
            /\ \A j \in DOMAIN harv_prop.rows :
                  /\ harv_prop.rows[j].dist_type_name \notin NaturalDisturbanceIds
                  /\ harv_prop.rows[j].stock_tot
                        = total(SelectSeq(harv_prop.rows,
                                          LAMBDA r : r.hwp = harv_prop.rows[j].hwp))

\* a table computed from treatments that hold a natural disturbance with
\* stock of its own next to another rule of the same product
C27_Witness ==
    /\ harv_prop.exists
    /\ \E i \in DOMAIN treatments :
          /\ treatments[i].Dist_Type_ID \in NaturalDisturbanceIds
          /\ FGt(PlainSum([k \in DOMAIN inventory |->
                              StandContribution(inventory[k], treatments[i])]), Z(0))
          /\ \E j \in DOMAIN harv_prop.rows :
                /\ harv_prop.rows[j].hwp = treatments[i].HWP
                /\ FGt(harv_prop.rows[j].stock_tot, Z(0))

\* C28: every row the fuel wood allocator returns, and every event made of
\* one, has an amount > 0: the rows of the fuel wood table with an amount
\* that is 0, negative or missing are exactly the ones left out, while the
\* roundwood allocator returns a row for every demand record and rule of
\* its product, an amount of 0 included.
C28_FuelwoodAmountsPositive ==
    LET positive(rows) == \A i \in DOMAIN rows : FGt(AllocatedVolume(rows[i]), Z(0))
        kept(all, rows) == rows = SelectSeq(all, LAMBDA r : FGt(r.amount, Z(0)))
        returned(rows) ==
            \A i \in DOMAIN rows : FGt(rows[i].amount_m3, Z(0))
    IN  /\ tab_fw.exists => positive(tab_fw.rows)
        /\ (impl = "maker" /\ tab_fw.exists /\ tab_fw_all.exists)
              => kept(tab_fw_all.rows, tab_fw.rows)
        /\ future.exists =>
              /\ Len(future.rows) = Len(tab_irw.rows) + Len(tab_fw.rows)
              /\ \A i \in DOMAIN tab_fw.rows :
                    FGt(future.rows[Len(tab_irw.rows) + i].amount, Z(0))
        /\ tab_irw.exists =>
              \A p \in RoundwoodPairs :
                  \E i \in DOMAIN tab_irw.rows :
                      /\ tab_irw.rows[i].step = gftm_irw[p[1]].step
                      /\ tab_irw.rows[i].rule = harv_prop.rows[p[2]]
        /\ (impl = "dist_maker" /\ harv_prop.exists) =>
              returned(dist_fw(dist_irw_rows(gftm_irw, harv_prop.rows, irw_artificial_ratio),
                               gftm_fw, harv_prop.rows, fw_artificial_ratio, Steps))

\* a fuel wood row with amount 0 has been left out of the returned table
\* while a roundwood row with amount 0 has been kept
C28_Witness ==
    /\ impl = "maker" /\ tab_fw.exists /\ tab_fw_all.exists
    /\ \E i \in DOMAIN tab_fw_all.rows : tab_fw_all.rows[i].amount = Z(0)
    /\ \E i \in DOMAIN tab_irw.rows : tab_irw.rows[i].amount = Z(0)

\* events have been assembled from a fuel wood table that lost a row with
\* amount 0 and kept one with a positive amount
C28_EventsWitness ==
    /\ future.exists /\ tab_fw.rows # <<>>
    /\ Len(tab_fw_all.rows) > Len(tab_fw.rows)

\* the roundwood and the fuel wood product of a class
ProductsOf(cb) == IF cb = "Con" THEN {"irw_c", "fw_c"} ELSE {"irw_b", "fw_b"}

\* the rows of a table of demand records or allocated rows that belong to
\* the products of class cb
RowsOfClass(rows, cb) == SelectSeq(rows, LAMBDA r : r.hwp \in ProductsOf(cb))

\* the events of class cb in an event table
EventsOfClass(table, cb) ==
    SelectSeq(table.rows, LAMBDA e : e.conifers_broadleaves = cb)

\* the run that holds the processor and the run that waits have the same
\* inventory, yields, factors and densities, the same rules of class cb and
\* the same demand for its products, but not the same rules and demand: they
\* differ in the rules or the demand of the other class only
DifferInOtherClassOnly(cb) ==
    LET of_class(treat) ==
            SelectSeq(treat, LAMBDA t : t.con_broad = cb \/ t.HWP \in ProductsOf(cb))
    IN  /\ other # NoRun
        /\ inventory = other.inventory /\ h_yields_long = other.h_yields_long
        /\ corr_fact = other.corr_fact /\ coefficients = other.coefficients
        /\ of_class(treatments) = of_class(other.treatments)
        /\ RowsOfClass(gftm_irw, cb) = RowsOfClass(other.gftm_irw, cb)
        /\ RowsOfClass(gftm_fw, cb) = RowsOfClass(other.gftm_fw, cb)
        /\ <<treatments, gftm_irw, gftm_fw>>
              # <<other.treatments, other.gftm_irw, other.gftm_fw>>

BothEnded == pc \in {"done", "failed"} /\ other.pc \in {"done", "failed"}

C29_BroadleafWitness ==
    /\ DifferInOtherClassOnly("Broad")
    /\ pc = "done" /\ other.pc = "done"
    /\ EventsOfClass(future, "Broad") # <<>>

\* one of the two runs has completed with conifer events and the other has
\* failed in a check on its broadleaf demand
C29_BroadleafFailureReached ==
    /\ DifferInOtherClassOnly("Con")
    /\ pc = "done" /\ EventsOfClass(future, "Con") # <<>>
    /\ other.pc = "failed" /\ other.err.kind = "AssertionError_check_dist_fw"

\* step, classifiers and disturbance type of an event
EventKey(e) ==
    <<e.step, e.status, e.forest_type, e.conifers_broadleaves, e.region,
      e.climatic_unit, e.dist_type_name>>

\* C30: no two events of a generated table have the same step, classifiers
\* and disturbance type.
C30_EventKeysUnique ==
    future.exists =>
        \A i, j \in DOMAIN future.rows :
            i # j => EventKey(future.rows[i]) # EventKey(future.rows[j])

====
